---- MODULE Spec2Model ----
(***************************************************************************)
(* A model of SQLsaber (and of its predecessor package joinobi): the agent *)
(* run loop, the streaming client, the SQL tool and database gateway, the  *)
(* schema cache, the tool registry and the knowledge store.                *)
(*                                                                         *)
(* Each component has its own specification (SpecAgent, SpecClient, ...),  *)
(* over its own variables; the variables of the other components keep the  *)
(* value Init gives them.                                                  *)
(***************************************************************************)
EXTENDS Integers, Sequences, FiniteSets, TLC

\* ------------------------------------------------------------------------
\* Bounds of the model
\* ------------------------------------------------------------------------

\* inputs one behaviour of the agent takes: the calls of query_stream plus the
\* stream events (block starts, text deltas) the provider sends
MaxInputs == 4
\* server-sent records one response stream carries
MaxRecords == 3
\* rows one statement returns
MaxRows == 3
\* agents constructed from the one registry
MaxAgents == 2
\* the clock runs until it passes this many seconds
MaxClock == 900
\* changes of the database schema while the cache is in use
MaxVersion == 1
\* partial_json deltas one tool_use block receives
MaxFragments == 4
\* knowledge entries added in one behaviour
MaxEntries == 3
\* rows handed to one call of apply_sort
MaxSortRows == 3
\* entries added or updated in one behaviour of the knowledge table
MaxStoreOps == 2
\* tasks that call add() concurrently on a new store
MaxTasks == 3
\* items of one tool_overides mapping
MaxOverrides == 2
\* pools asyncpg creates for one gateway in one behaviour
MaxPools == 3
\* bytes in one chunk of the transport
MaxChunk == 16

\* ------------------------------------------------------------------------
\* Constants of the program
\* ------------------------------------------------------------------------

\* the default of execute_sql's limit argument
DefaultLimit == 100
\* the default of SchemaManager's cache_ttl argument, in seconds
cache_ttl == 900
\* the limit the search_knowledge tool passes to the manager
ToolLimit == 10
\* retries of the visualization sub-agent after its first attempt
MAX_RETRIES == 2

\* ------------------------------------------------------------------------
\* State
\* ------------------------------------------------------------------------

\* the agent run loop (AnthropicSQLAgent.query_stream)
VARIABLES
    impl,        \* which of the two agents this behaviour runs
    history,     \* self.conversation_history
    pc,          \* where query_stream stands
    cancel,      \* cancellation_token.is_set() (sqlsaber only)
    useHistory,  \* the use_history argument of the run
    prompt,      \* the user_query argument of the run
    cur,         \* content blocks of the model turn being streamed
    response,    \* the response of the last model turn, NoResponse if none
    collected,   \* collected_content
    toolResults, \* tool_results of the tool cycle in progress
    blockIdx,    \* index in response.content of the for loop
    nextId,      \* next tool_use id the provider hands out
    inputs,      \* calls and stream events taken so far
    runs,        \* runs started so far
    histAtRun,   \* history when the run started
    histAtCycle, \* history when the tool cycle in progress started
    cancelSeen,  \* the flag was set while the tool cycle in progress had not
                 \* yet appended its tool-result turn
    cancelAt,    \* where the run stood when the flag was set, "none" while unset
    events,      \* the events the run has yielded, in order
    deltasIn,    \* the text deltas the model turn being streamed has received
    turnStart,   \* Len(events) when that model turn started
    lastResults, \* self._last_results is truthy
    toolOutcome, \* what the tool of the tool call that has just ended did
    endedBy      \* how the run ended: the return or except clause it left by

agentVars == <<impl, history, pc, cancel, useHistory, prompt, cur, response,
               collected, toolResults, blockIdx, nextId, inputs, runs,
               histAtRun, histAtCycle, cancelSeen, cancelAt, events, deltasIn,
               turnStart, lastResults, toolOutcome, endedBy>>

\* the streaming client (AnthropicClient.create_message_with_tools)
VARIABLES
    cpc,        \* where create_message_with_tools stands
    cChunk,     \* records of the chunk in hand not yet processed
    cCancel,    \* cancellation_token.is_set()
    cYielded,   \* what create_message_with_tools has yielded, in order
    cBlocks,    \* the adapter's content blocks
    cRecords,   \* records the transport has delivered so far
    cCancelAt,  \* Len(cYielded) when the token was set, -1 while it is not
    cRawAfter,  \* raw events _process_sse_stream yielded after the token was set
    cSent,      \* the data of the error record the provider sent, NoData if none
    cError,     \* the exception create_message_with_tools raised, NoError if none
    cChunkLen   \* how many records the chunk in hand held when it arrived

clientVars == <<cpc, cChunk, cCancel, cYielded, cBlocks, cRecords, cCancelAt,
                cRawAfter, cSent, cError, cChunkLen>>

\* the SQL tool and the database gateway (execute_sql, execute_query)
VARIABLES
    allowWrite, \* self.allow_write
    sqlpc,      \* where execute_sql stands
    sqlInput,   \* the query and limit arguments of the last call
    sqlQuery,   \* the query handed to execute_query, <<>> if none was
    sqlDbCalls, \* calls of execute_query the last call of execute_sql made
    sqlResult,  \* the payload the last call returned
    pool,       \* self._pool is not None
    connsOut,   \* connections acquired from the pool and not yet released
    txn,        \* the state of the gateway's last transaction
    db,         \* the committed state: the write statements whose effect it holds
    txnDb,      \* the database as the open transaction sees it
    fetched,    \* rows conn.fetch returned
    raised      \* conn.fetch raised

sqlVars == <<allowWrite, sqlpc, sqlInput, sqlQuery, sqlDbCalls, sqlResult, pool,
             connsOut, txn, db, txnDb, fetched, raised>>

\* the tool registry and the agents built from it
VARIABLES
    toolHeap,   \* the tool objects created so far, by identity
    toolAgents  \* the agents: the objects each holds by tool name, and the
                \* state of each as its agent last left it

toolsVars == <<toolHeap, toolAgents>>

\* the schema cache (SchemaManager)
VARIABLES
    now,            \* time.time()
    dbVersion,      \* the schema the database holds now
    schemaCache,    \* self._schema_cache
    schpc,          \* where get_schema_info or list_tables stands
    schCall,        \* the call in progress
    schFetched,     \* what the introspector has read for it
    prevCall,       \* the call before the last
    lastCall,       \* the last get_schema_info or list_tables call that returned
    clearedBetween  \* clear_schema_cache was called since that call returned

cacheVars == <<now, dbVersion, schemaCache, schpc, schCall, schFetched, prevCall,
               lastCall, clearedBetween>>

\* the reassembly of one tool_use block's input
VARIABLES
    jpc,    \* where the stream of the block stands
    jText,  \* the whole input text the provider is sending
    jPos,   \* characters of it sent so far
    jBlock, \* tool_use_blocks[-1]: its input and its _partial text
    jFrags  \* partial_json deltas received so far

jsonVars == <<jpc, jText, jPos, jBlock, jFrags>>

\* the knowledge store
VARIABLES
    kRows,   \* the rows of the knowledge table, in insertion order
    kClock,  \* entries added so far; the next id and timestamp
    kSearch, \* the last search: who ran it and for which database
    kResult  \* what it returned

knowVars == <<kRows, kClock, kSearch, kResult>>

\* the visualization tool (VizTool.execute over SpecAgent.generate_spec)
VARIABLES
    vpc,       \* where execute stands
    vFile,     \* the file argument of the call
    vRowCount, \* row_count of the data summary
    vAttempt,  \* attempt, the loop variable of generate_spec
    vPrompt,   \* prompt
    vHistory,  \* message_history
    vCalls,    \* the runs of the sub-agent this call has made
    vResult,   \* the payload the call returned
    vLastFile, \* self._last_file
    vLastRows, \* self._last_rows, as the row count of the recorded rows
    vMessages  \* the tool call ids that have an output in ctx.messages

vizVars == <<vpc, vFile, vRowCount, vAttempt, vPrompt, vHistory, vCalls, vResult,
             vLastFile, vLastRows, vMessages>>

\* the sort transform of the chart pipeline (apply_sort)
VARIABLES
    spc,     \* where the call of apply_sort stands
    sRows,   \* the rows argument
    sSorts,  \* the sorts argument
    sResult  \* the list apply_sort returned

sortVars == <<spc, sRows, sSorts, sResult>>

\* the knowledge table and its full-text index (KnowledgeManager over
\* SQLiteKnowledgeStore)
VARIABLES
    tRows,   \* the rows of table knowledge, in rowid order
    tFts,    \* knowledge_fts: the (rowid, term) pairs the index holds
    tClock,  \* time.time(), and the ids handed out so far
    tOp      \* the last call of the manager and what it gave back

storeVars == <<tRows, tFts, tClock, tOp>>

\* concurrent add() calls on a store that is not initialized yet
VARIABLES
    fpc,          \* where each task's add() stands
    fEntry,       \* the database name of the entry each task adds
    fInitialized, \* self._initialized
    fLock,        \* the task that holds self._init_lock, 0 if none
    fWriter,      \* the task whose connection holds SQLite's write lock, 0 if none
    fSchema,      \* table knowledge exists
    fBodyRuns,    \* how many times the body of initialize has run
    fRechecked,   \* tasks that found the flag set once they had the lock
    fTable        \* the committed rows: (task, database name) pairs

firstuseVars == <<fpc, fEntry, fInitialized, fLock, fWriter, fSchema, fBodyRuns,
                  fRechecked, fTable>>

\* the tool overrides of a run (normalize_tool_overides)
VARIABLES
    ovpc,     \* where the caller stands
    ovInput,  \* tool_overides, the items of the mapping in iteration order
    ovResult, \* what normalize_tool_overides did with it
    ovAgain   \* what it did with its own result

overVars == <<ovpc, ovInput, ovResult, ovAgain>>

\* concurrent calls on one database gateway (DatabaseConnection.get_pool, close)
VARIABLES
    gwpc,      \* where each task's call stands
    gwPool,    \* self._pool: the id of a pool, 0 for None
    gwOpen,    \* the pools asyncpg has created that are not closed
    gwCreated, \* how many pools asyncpg.create_pool has created so far
    gwGot,     \* the pool each task's last get_pool returned, 0 if none yet
    gwClosing  \* the pool each task's close() is closing, 0 if none

poolVars == <<gwpc, gwPool, gwOpen, gwCreated, gwGot, gwClosing>>

\* the server-sent event reader (AnthropicClient._process_sse_stream)
VARIABLES
    ssepc,        \* where the reader stands
    sseStream,    \* the bytes the server sends, all of them
    ssePos,       \* how many of them the transport has delivered
    sseBuffer,    \* buffer
    sseEventType, \* event_type, <<>> for None
    sseYielded,   \* the events yielded so far
    sseCuts       \* the positions at which the transport has cut the stream

sseVars == <<ssepc, sseStream, ssePos, sseBuffer, sseEventType, sseYielded, sseCuts>>

\* what the actions of one component leave alone
notAgent ==
    <<clientVars, sqlVars, toolsVars, cacheVars, jsonVars, knowVars, vizVars, sortVars, storeVars, firstuseVars, overVars, poolVars, sseVars>>
notClient ==
    <<agentVars, sqlVars, toolsVars, cacheVars, jsonVars, knowVars, vizVars, sortVars, storeVars, firstuseVars, overVars, poolVars, sseVars>>
notSql ==
    <<agentVars, clientVars, toolsVars, cacheVars, jsonVars, knowVars, vizVars, sortVars, storeVars, firstuseVars, overVars, poolVars, sseVars>>
notTools ==
    <<agentVars, clientVars, sqlVars, cacheVars, jsonVars, knowVars, vizVars, sortVars, storeVars, firstuseVars, overVars, poolVars, sseVars>>
notCache ==
    <<agentVars, clientVars, sqlVars, toolsVars, jsonVars, knowVars, vizVars, sortVars, storeVars, firstuseVars, overVars, poolVars, sseVars>>
notJson ==
    <<agentVars, clientVars, sqlVars, toolsVars, cacheVars, knowVars, vizVars, sortVars, storeVars, firstuseVars, overVars, poolVars, sseVars>>
notKnow ==
    <<agentVars, clientVars, sqlVars, toolsVars, cacheVars, jsonVars, vizVars, sortVars, storeVars, firstuseVars, overVars, poolVars, sseVars>>
notViz ==
    <<agentVars, clientVars, sqlVars, toolsVars, cacheVars, jsonVars, knowVars, sortVars, storeVars, firstuseVars, overVars, poolVars, sseVars>>

notSort ==
    <<agentVars, clientVars, sqlVars, toolsVars, cacheVars, jsonVars, knowVars, vizVars, storeVars, firstuseVars, overVars, poolVars, sseVars>>

notStore ==
    <<agentVars, clientVars, sqlVars, toolsVars, cacheVars, jsonVars, knowVars, vizVars, sortVars, firstuseVars, overVars, poolVars, sseVars>>

notFirstUse ==
    <<agentVars, clientVars, sqlVars, toolsVars, cacheVars, jsonVars, knowVars, vizVars, sortVars, storeVars, overVars, poolVars, sseVars>>

notOver ==
    <<agentVars, clientVars, sqlVars, toolsVars, cacheVars, jsonVars, knowVars, vizVars, sortVars, storeVars, firstuseVars, poolVars, sseVars>>

notPool ==
    <<agentVars, clientVars, sqlVars, toolsVars, cacheVars, jsonVars, knowVars, vizVars, sortVars, storeVars, firstuseVars, overVars, sseVars>>

notSse ==
    <<agentVars, clientVars, sqlVars, toolsVars, cacheVars, jsonVars, knowVars, vizVars, sortVars, storeVars, firstuseVars, overVars, poolVars>>

vars == <<agentVars, clientVars, sqlVars, toolsVars, cacheVars, jsonVars, knowVars,
          vizVars,
          sortVars,
          storeVars,
          firstuseVars,
          overVars,
          poolVars,
          sseVars>>

\* ------------------------------------------------------------------------
\* The agent run loop: AnthropicSQLAgent.query_stream
\*   impl = "sqlsaber": src/src/sqlsaber/agents/anthropic.py
\*   impl = "joinobi" : src/src/joinobi/agents/anthropic.py
\* ------------------------------------------------------------------------

Impls == {"sqlsaber", "joinobi"}
\* the user_query of the n-th run
PromptOf(n) == <<"q", n>>
\* the tools the agent has
KnownTools == {"execute_sql", "list_tables"}
\* the names the model may ask for
ToolNames == KnownTools \cup {"no_such_tool"}
\* what a tool call returns: a JSON string, a success or an {error} payload
ToolPayloads == {"ok", "error"}

NoResponse == [content |-> <<>>, stop_reason |-> "none"]

TextBlock(t) == [type |-> "text", text |-> t]
ToolUseBlock(id, name) == [type |-> "tool_use", id |-> id, name |-> name]
\* a str content of a user turn, kept as a one-block list so that every
\* turn's content is a sequence of blocks
StrContent(s) == <<[type |-> "str", text |-> s]>>
Turn(role, content) == [role |-> role, content |-> content]

IsToolUse(b) == b.type = "tool_use"
IsToolResult(b) == b.type = "tool_result"

\* build_tool_result_block(tool_use_id, content)
build_tool_result_block(id, payload) ==
    [type |-> "tool_result", tool_use_id |-> id, content |-> payload]

\* (mutant) a stop_reason that never asks for tools
StopReasonStop(blocks) == "stop"

\* the stop_reason of a streamed turn: tool_use iff a tool_use block was seen
StopReason(blocks) ==
    IF \E i \in 1..Len(blocks) : IsToolUse(blocks[i]) THEN "tool_use" ELSE "stop"

\* joinobi assembles the response itself: text blocks in arrival order, then
\* content_blocks.extend(tool_use_blocks)
JoinobiContent(blocks) ==
    SelectSeq(blocks, LAMBDA b : ~IsToolUse(b)) \o SelectSeq(blocks, IsToolUse)

\* sqlsaber takes adapter.get_content_blocks(): the blocks by index
AdapterContent(blocks) == blocks

ResponseOf(blocks) ==
    [content |-> IF impl = "joinobi" THEN JoinobiContent(blocks)
                 ELSE AdapterContent(blocks),
     stop_reason |-> StopReason(blocks)]

\* the agent after construction
AgentInit ==
    /\ history = <<>>
    /\ pc = "idle"
    /\ cancel = FALSE
    /\ useHistory = TRUE
    /\ prompt = PromptOf(0)
    /\ cur = <<>>
    /\ response = NoResponse
    /\ collected = <<>>
    /\ toolResults = <<>>
    /\ blockIdx = 1
    /\ nextId = 1
    /\ inputs = 0
    /\ runs = 0
    /\ histAtRun = <<>>
    /\ histAtCycle = <<>>
    /\ cancelSeen = FALSE
    /\ cancelAt = "none"
    /\ events = <<>>
    /\ deltasIn = <<>>
    /\ turnStart = 0
    /\ lastResults = FALSE
    /\ toolOutcome = "none"
    /\ endedBy = "none"


\* the deltas a text block receives (an empty delta is possible on the wire)
Deltas == {<<>>, <<"a">>}

running == pc \notin {"idle", "done"}

\* StreamEvent(type, data)
StreamEvent(type, data) == [type |-> type, data |-> data]

\* what a tool does when it is executed: it returns rows, returns no row,
\* raises, or is called with its required argument missing
ToolOutcomes == {"rows", "empty", "raises", "missing_query"}
\* process_tool_call did not return: the exception went on to its caller
Raised == "<raised>"

\* (mutant) process_tool_call without its except clauses
base_process_tool_call_unguarded(name, outcome) ==
    IF name \notin KnownTools \/ outcome \in {"raises", "missing_query"}
    THEN Raised
    ELSE "ok"

\* sqlsaber: BaseSQLAgent.process_tool_call; the lookup of the tool and its
\* execute(**tool_input) are inside one try, KeyError and Exception both
\* give an {error} payload
base_process_tool_call(name, outcome) ==
    IF name \notin KnownTools THEN "error"
    ELSE IF outcome \in {"raises", "missing_query"} THEN "error"
    ELSE "ok"

\* joinobi: process_tool_call dispatches by name; list_tables and execute_sql
\* catch what the database raises, but tool_input["query"] is read outside
\* any try
joinobi_process_tool_call(name, outcome) ==
    CASE name = "list_tables" -> IF outcome = "raises" THEN "error" ELSE "ok"
      [] name = "execute_sql" ->
             IF outcome = "missing_query" THEN Raised
             ELSE IF outcome = "raises" THEN "error" ELSE "ok"
      [] OTHER -> "error"

process_tool_call(name, outcome) ==
    IF impl = "joinobi" THEN joinobi_process_tool_call(name, outcome)
    ELSE base_process_tool_call(name, outcome)

\* self._last_results is truthy after the call: joinobi's execute_sql stores
\* results[:limit] when the query succeeds; sqlsaber's tools are the
\* registry's objects, which never store into the agent
LastResultsAfter(name, outcome) ==
    IF impl = "joinobi" /\ name = "execute_sql" /\ outcome \in {"rows", "empty"}
    THEN outcome = "rows"
    ELSE lastResults

\* the events yielded after process_tool_call returned
ToolEvents(name, last) ==
    IF name = "execute_sql" /\ last THEN <<StreamEvent("query_result", <<>>)>>
    ELSE IF name = "list_tables" THEN <<StreamEvent("tool_result", <<name>>)>>
    ELSE <<>>

\* (mutant) a delta gives no text event
TextEventsNone(d) == <<>>

\* the text events a delta gives: sqlsaber yields non-empty text only
TextEvents(d) ==
    IF impl = "sqlsaber" /\ d = <<>> THEN <<>> ELSE <<StreamEvent("text", d)>>

\* (mutant) a cancellation check that reports the cancellation as an error
CancelRaises(evs) == Append(evs, StreamEvent("error", <<>>))

\* a cancellation check that finds the token set: a bare return inside the
\* try, which yields nothing and does not enter an except clause
CancelReturn(evs) == evs

\* query_stream is called: the state is reset and the first request is sent
StartRun(uh) ==
    /\ pc \in {"idle", "done"}
    /\ inputs < MaxInputs
    /\ inputs' = inputs + 1
    /\ runs' = runs + 1
    /\ prompt' = PromptOf(runs + 1)
    /\ useHistory' = uh
    /\ cancel' = FALSE
    /\ cancelSeen' = FALSE
    /\ cancelAt' = "none"
    /\ cur' = <<>>
    /\ response' = NoResponse
    /\ collected' = <<>>
    /\ toolResults' = <<>>
    /\ blockIdx' = 1
    /\ histAtRun' = history
    /\ histAtCycle' = history
    /\ events' = <<>>
    /\ deltasIn' = <<>>
    /\ turnStart' = 0
    /\ lastResults' = FALSE
    /\ toolOutcome' = "none"
    /\ endedBy' = "none"
    /\ pc' = "stream"
    /\ UNCHANGED <<impl, history, nextId>>
    /\ UNCHANGED notAgent

\* all tool results of the cycle are built and the next model turn has not
\* sent anything yet
AfterResults ==
    \/ /\ pc = "tools"
       /\ \A i \in blockIdx..Len(response.content) : ~IsToolUse(response.content[i])
    \/ pc = "stream" /\ collected # <<>> /\ cur = <<>>

\* the caller sets the cancellation token while the run is in progress
SetCancel ==
    /\ impl = "sqlsaber"
    /\ running
    /\ ~cancel
    /\ cancel' = TRUE
    /\ cancelSeen' = (pc \in {"stream", "tools", "toolexec"}
                       \/ (pc = "loop" /\ response.stop_reason = "tool_use"))
    /\ cancelAt' = IF AfterResults THEN "after_results"
                   ELSE IF pc = "toolexec" THEN "tool_running"
                   ELSE "other"
    /\ UNCHANGED <<impl, history, pc, useHistory, prompt, cur, response,
                   collected, toolResults, blockIdx, nextId, inputs, runs, histAtRun,
                   histAtCycle, events, deltasIn, turnStart, lastResults,
                   toolOutcome>>
    /\ UNCHANGED endedBy
    /\ UNCHANGED notAgent

\* an event arrives (or the stream ends) with the token set: return
StreamCancelled ==
    /\ impl = "sqlsaber"
    /\ pc = "stream"
    /\ cancel
    /\ pc' = "done"
    /\ events' = CancelReturn(events)
    /\ endedBy' = "cancel_stream"
    /\ UNCHANGED <<impl, history, cancel, useHistory, prompt, cur, response,
                   collected, toolResults, blockIdx, nextId, inputs, runs, histAtRun,
                   histAtCycle, cancelSeen, cancelAt, deltasIn, turnStart,
                   lastResults, toolOutcome>>
    /\ UNCHANGED notAgent

streamOpen == pc = "stream" /\ ~cancel

\* content_block_start of a text block
StreamTextStart ==
    /\ streamOpen
    /\ inputs < MaxInputs
    /\ inputs' = inputs + 1
    /\ cur' = Append(cur, TextBlock(<<>>))
    /\ UNCHANGED <<impl, history, pc, cancel, useHistory, prompt, response,
                   collected, toolResults, blockIdx, nextId, runs, histAtRun,
                   histAtCycle, cancelSeen, cancelAt, events, deltasIn, turnStart,
                   lastResults, toolOutcome>>
    /\ UNCHANGED endedBy
    /\ UNCHANGED notAgent

\* content_block_delta with text, for the text block being streamed
StreamTextDelta(d) ==
    /\ streamOpen
    /\ cur # <<>>
    /\ cur[Len(cur)].type = "text"
    /\ inputs < MaxInputs
    /\ inputs' = inputs + 1
    /\ events' = events \o TextEvents(d)
    /\ deltasIn' = Append(deltasIn, d)
    /\ cur' = [cur EXCEPT ![Len(cur)].text = @ \o d]
    /\ UNCHANGED <<impl, history, pc, cancel, useHistory, prompt, response,
                   collected, toolResults, blockIdx, nextId, runs, histAtRun,
                   histAtCycle, cancelSeen, cancelAt, turnStart, lastResults,
                   toolOutcome>>
    /\ UNCHANGED endedBy
    /\ UNCHANGED notAgent

\* content_block_start of a tool_use block; only the loop over the first
\* stream of a run yields the "started" event
StreamToolStart(name) ==
    /\ streamOpen
    /\ inputs < MaxInputs
    /\ inputs' = inputs + 1
    /\ cur' = Append(cur, ToolUseBlock(nextId, name))
    /\ nextId' = nextId + 1
    /\ events' = IF collected = <<>>
                 THEN Append(events, StreamEvent("tool_use", <<name, "started">>))
                 ELSE events
    /\ UNCHANGED <<impl, history, pc, cancel, useHistory, prompt, response,
                   collected, toolResults, blockIdx, runs, histAtRun,
                   histAtCycle, cancelSeen, cancelAt, deltasIn, turnStart,
                   lastResults, toolOutcome>>
    /\ UNCHANGED endedBy
    /\ UNCHANGED notAgent

\* message_stop: the turn's response is ready
StreamStop ==
    /\ streamOpen
    /\ response' = ResponseOf(cur)
    /\ pc' = "loop"
    /\ UNCHANGED <<impl, history, cancel, useHistory, prompt, cur, collected,
                   toolResults, blockIdx, nextId, inputs, runs, histAtRun, histAtCycle,
                   cancelSeen, cancelAt, events, deltasIn, turnStart, lastResults,
                   toolOutcome>>
    /\ UNCHANGED endedBy
    /\ UNCHANGED notAgent

\* the stream raises (a non-200 response, an error record, a network drop):
\* the except clause yields an error event and the run ends
StreamError ==
    /\ streamOpen
    /\ events' = Append(events, StreamEvent("error", <<>>))
    /\ pc' = "done"
    /\ endedBy' = "except"
    /\ UNCHANGED <<impl, history, cancel, useHistory, prompt, cur, response,
                   collected, toolResults, blockIdx, nextId, inputs, runs, histAtRun,
                   histAtCycle, cancelSeen, cancelAt, deltasIn, turnStart,
                   lastResults, toolOutcome>>
    /\ UNCHANGED notAgent

\* the final commit once the model stops asking for tools
FinalHistory ==
    IF ~useHistory THEN history
    ELSE IF impl = "joinobi"
    THEN history \o <<Turn("user", StrContent(prompt))>> \o collected
                 \o <<Turn("assistant", response.content)>>
    ELSE Append(history, Turn("assistant", response.content))

\* the while test: start a tool cycle, or commit the final turn and end
LoopTest ==
    /\ pc = "loop"
    /\ IF response.stop_reason = "tool_use"
       THEN IF impl = "sqlsaber" /\ cancel
            THEN /\ pc' = "done"
                 /\ events' = CancelReturn(events)
                 /\ endedBy' = "cancel_cycle_start"
                 /\ UNCHANGED <<collected, toolResults, blockIdx, history>>
            ELSE /\ collected' = Append(collected, Turn("assistant", response.content))
                 /\ toolResults' = <<>>
                 /\ blockIdx' = 1
                 /\ pc' = "tools"
                 /\ UNCHANGED <<history, events, endedBy>>
       ELSE /\ history' = FinalHistory
            /\ pc' = "done"
            /\ endedBy' = "end"
            /\ UNCHANGED <<collected, toolResults, blockIdx, events>>
    /\ UNCHANGED <<impl, cancel, useHistory, prompt, cur, response, nextId, inputs,
                   runs, histAtRun, histAtCycle, cancelSeen, cancelAt,
                   deltasIn, turnStart, lastResults, toolOutcome>>
    /\ UNCHANGED notAgent

\* the for loop reaches a block: a tool_use block is announced and
\* dispatched, another block is skipped
ToolStart ==
    /\ pc = "tools"
    /\ blockIdx <= Len(response.content)
    /\ IF IsToolUse(response.content[blockIdx])
       THEN /\ pc' = "toolexec"
            /\ events' = Append(events, StreamEvent("tool_use",
                             <<response.content[blockIdx].name, "executing">>))
            /\ toolOutcome' = "none"
            /\ UNCHANGED blockIdx
       ELSE /\ blockIdx' = blockIdx + 1
            /\ toolOutcome' = "none"
            /\ UNCHANGED <<pc, events>>
    /\ UNCHANGED <<impl, history, cancel, useHistory, prompt, cur, response,
                   collected, toolResults, nextId, inputs, runs, histAtRun,
                   histAtCycle, cancelSeen, cancelAt, deltasIn, turnStart,
                   lastResults>>
    /\ UNCHANGED endedBy
    /\ UNCHANGED notAgent

\* process_tool_call ends: what it returns is paired with the block's id; an
\* exception it lets through reaches the except clause of query_stream
ToolFinish(outcome) ==
    /\ pc = "toolexec"
    /\ toolOutcome' = outcome
    /\ LET block == response.content[blockIdx]
           result == process_tool_call(block.name, outcome)
       IN  IF result = Raised
           THEN /\ events' = Append(events, StreamEvent("error", <<>>))
                /\ pc' = "done"
                /\ endedBy' = "except"
                /\ UNCHANGED <<toolResults, blockIdx, lastResults>>
           ELSE /\ lastResults' = LastResultsAfter(block.name, outcome)
                /\ events' = events \o ToolEvents(block.name, lastResults')
                /\ toolResults' = Append(toolResults,
                       build_tool_result_block(block.id, result))
                /\ blockIdx' = blockIdx + 1
                /\ pc' = "tools"
                /\ UNCHANGED endedBy
    /\ UNCHANGED <<impl, history, cancel, useHistory, prompt, cur, response,
                   collected, nextId, inputs, runs, histAtRun, histAtCycle, cancelSeen,
                   cancelAt, deltasIn, turnStart>>
    /\ UNCHANGED notAgent

\* (mutant) the history is extended before the tool-result turn is collected
CycleHistoryEarly(coll) ==
    IF impl = "sqlsaber" /\ useHistory
    THEN history \o SubSeq(coll, 1, Len(coll) - 1)
    ELSE history

\* (mutant) the history is left alone until the final commit
CycleHistoryLate(coll) == history

\* sqlsaber: self.conversation_history.extend(collected_content), each cycle
CycleHistory(coll) ==
    IF impl = "sqlsaber" /\ useHistory THEN history \o coll ELSE history

\* the batch is done: the tool-result turn is appended, then (sqlsaber) the
\* token is checked, then the "processing" event is yielded and the next
\* request is sent
CycleCommit ==
    /\ pc = "tools"
    /\ blockIdx > Len(response.content)
    /\ collected' = Append(collected, Turn("user", toolResults))
    /\ history' = CycleHistory(collected')
    /\ toolOutcome' = "none"
    /\ IF impl = "sqlsaber" /\ cancel
       THEN /\ pc' = "done"
            /\ events' = CancelReturn(events)
            /\ endedBy' = "cancel_after_results"
            /\ UNCHANGED <<cur, response, histAtCycle, cancelSeen, deltasIn,
                           turnStart>>
       ELSE /\ pc' = "stream"
            /\ UNCHANGED endedBy
            /\ cur' = <<>>
            /\ response' = NoResponse
            /\ histAtCycle' = history'
            /\ cancelSeen' = FALSE
            /\ events' = Append(events, StreamEvent("processing", <<>>))
            /\ deltasIn' = <<>>
            /\ turnStart' = Len(events')
    /\ UNCHANGED <<impl, cancel, useHistory, prompt, toolResults, blockIdx,
                   nextId, inputs, runs, histAtRun, cancelAt, lastResults>>
    /\ UNCHANGED notAgent

AgentNext ==
    \/ \E uh \in BOOLEAN : StartRun(uh)
    \/ SetCancel
    \/ StreamCancelled
    \/ StreamTextStart
    \/ \E d \in Deltas : StreamTextDelta(d)
    \/ \E n \in ToolNames : StreamToolStart(n)
    \/ StreamStop
    \/ StreamError
    \/ LoopTest
    \/ ToolStart
    \/ \E o \in ToolOutcomes : ToolFinish(o)
    \/ CycleCommit

\* ------------------------------------------------------------------------
\* The streaming client: AnthropicClient.create_message_with_tools over
\* _process_sse_stream and the stream adapter
\*   src/src/sqlsaber/clients/anthropic.py
\* ------------------------------------------------------------------------

\* the records of a stream, by event type
RecordKinds == {"ping", "text_start", "text_delta", "tool_start", "error"}

\* the data line of an error record: a JSON object with or without the keys
\* "message" and "type", or text that is not JSON. A message is a sequence of
\* the pieces it is put together from.
ErrorData(json, keys, message, type) ==
    [json |-> json, keys |-> keys, message |-> message, type |-> type]
NoData == ErrorData(FALSE, FALSE, <<>>, "none")
ErrorDatas ==
    { ErrorData(TRUE, TRUE, <<"Overloaded">>, "overloaded_error"),
      ErrorData(TRUE, TRUE, <<"Something went wrong">>, "error"),
      ErrorData(TRUE, FALSE, <<>>, "none"),
      ErrorData(FALSE, FALSE, <<>>, "none") }

\* LLMClientError(message, error_type)
LLMClientError(message, error_type) == [message |-> message, error_type |-> error_type]
\* the error_type of an LLMClientError constructed with a message only
DefaultErrorType == "<default>"
NoError == LLMClientError(<<>>, "none")

\* the error raised for an error record: error_data.get("message", "Stream
\* error") and error_data.get("type", "stream_error"), or the invalid-JSON one
ErrorFromRecord(data) ==
    IF ~data.json
    THEN LLMClientError(<<"Stream error with invalid JSON">>, DefaultErrorType)
    ELSE IF data.keys THEN LLMClientError(data.message, data.type)
    ELSE LLMClientError(<<"Stream error">>, "stream_error")

\* the last except clause of _process_sse_stream: any Exception raised inside
\* the loop, an LLMClientError included, is replaced
WrapUnexpected(e) ==
    LLMClientError(<<"Unexpected error during streaming: ">> \o e.message,
                   DefaultErrorType)

\* except aiohttp.ClientError
NetworkError ==
    LLMClientError(<<"Network error during streaming: ", "reset">>, DefaultErrorType)

\* create_exception_from_response(status, response_data, request_id)
ResponseError(status) == LLMClientError(<<"status">>, "api_error")

\* the except clause of create_message_with_tools: an LLMClientError is
\* re-raised as it is
Reraised(e) == e

ClientInit ==
    /\ cpc = "idle"
    /\ cChunk = <<>>
    /\ cCancel = FALSE
    /\ cYielded = <<>>
    /\ cBlocks = <<>>
    /\ cRecords = 0
    /\ cCancelAt = -1
    /\ cRawAfter = 0
    /\ cSent = NoData
    /\ cError = NoError
    /\ cChunkLen = 0

\* the adapter's block state after a raw event (content-block reassembly)
AdapterTrack(blocks, kind) ==
    CASE kind = "text_start" -> Append(blocks, "text")
      [] kind = "tool_start" -> Append(blocks, "tool_use")
      [] OTHER -> blocks

\* adapter.get_stop_reason()
AdapterStopReason(blocks) ==
    IF \E i \in 1..Len(blocks) : blocks[i] = "tool_use" THEN "tool_use" ELSE "stop"

\* StreamingResponse(content=adapter.get_content_blocks(),
\*                   stop_reason=adapter.get_stop_reason())
ResponseReady(blocks) ==
    [type |-> "response_ready", content |-> blocks,
     stop_reason |-> AdapterStopReason(blocks)]

RawEvent(kind) == [type |-> kind, content |-> <<>>, stop_reason |-> "none"]

\* what create_message_with_tools does once the adapter's stream has ended:
\* it builds the response object and yields the response_ready signal
AfterStream(yielded, blocks) == Append(yielded, ResponseReady(blocks))

\* session.post: a non-200 status raises, a 200 opens the stream
ClientRequest(status) ==
    /\ cpc = "idle"
    /\ cpc' = IF status = 200 THEN "reading" ELSE "raised"
    /\ cError' = IF status = 200 THEN cError ELSE Reraised(ResponseError(status))
    /\ UNCHANGED <<cChunk, cCancel, cYielded, cBlocks, cRecords, cCancelAt,
                   cRawAfter, cSent>>
    /\ UNCHANGED cChunkLen
    /\ UNCHANGED notClient

\* the caller sets the token while the turn is being streamed
ClientSetCancel ==
    /\ cpc \in {"reading", "inchunk"}
    /\ ~cCancel
    /\ cCancel' = TRUE
    /\ cCancelAt' = Len(cYielded)
    /\ UNCHANGED <<cpc, cChunk, cYielded, cBlocks, cRecords, cRawAfter, cSent,
                   cError>>
    /\ UNCHANGED cChunkLen
    /\ UNCHANGED notClient

\* iter_any() delivers a chunk: the token is checked, then the chunk is buffered
ClientChunk(records) ==
    /\ cpc = "reading"
    /\ cRecords + Len(records) <= MaxRecords
    /\ cRecords' = cRecords + Len(records)
    /\ IF cCancel
       THEN /\ cYielded' = AfterStream(cYielded, cBlocks)
            /\ cpc' = "ready"
            /\ UNCHANGED cChunk
       ELSE /\ cChunk' = records
            /\ cpc' = "inchunk"
            /\ UNCHANGED cYielded
    /\ cChunkLen' = Len(records)
    /\ UNCHANGED <<cCancel, cBlocks, cCancelAt, cRawAfter, cSent, cError>>
    /\ UNCHANGED notClient

\* the next buffered record is parsed: an error record (with the given data
\* line) raises, any other is yielded to the adapter, which checks the token,
\* tracks it and passes it on
ClientRecord(data) ==
    /\ cpc = "inchunk"
    /\ LET kind == Head(cChunk)
           rest == Tail(cChunk)
       IN  IF kind = "error"
           THEN /\ cpc' = "raised"
                /\ cSent' = data
                /\ cError' = Reraised(WrapUnexpected(ErrorFromRecord(data)))
                /\ UNCHANGED <<cChunk, cYielded, cBlocks, cRawAfter>>
           ELSE /\ UNCHANGED <<cSent, cError>>
                /\ cRawAfter' = IF cCancel THEN cRawAfter + 1 ELSE cRawAfter
                /\ IF cCancel
                   THEN /\ cYielded' = AfterStream(cYielded, cBlocks)
                        /\ cpc' = "ready"
                        /\ UNCHANGED <<cChunk, cBlocks>>
                   ELSE /\ cBlocks' = AdapterTrack(cBlocks, kind)
                        /\ cYielded' = Append(cYielded, RawEvent(kind))
                        /\ cChunk' = rest
                        /\ cpc' = IF rest = <<>> THEN "reading" ELSE "inchunk"
    /\ UNCHANGED <<cCancel, cRecords, cCancelAt>>
    /\ UNCHANGED cChunkLen
    /\ UNCHANGED notClient

\* the transport ends: the sse loop and the adapter's loop end
ClientEnd ==
    /\ cpc = "reading"
    /\ cYielded' = AfterStream(cYielded, cBlocks)
    /\ cpc' = "ready"
    /\ UNCHANGED <<cChunk, cCancel, cBlocks, cRecords, cCancelAt, cRawAfter, cSent,
                   cError>>
    /\ UNCHANGED cChunkLen
    /\ UNCHANGED notClient

\* aiohttp.ClientError or a timeout while reading: LLMClientError is raised
ClientNetworkError ==
    /\ cpc = "reading"
    /\ cpc' = "raised"
    /\ cError' = Reraised(NetworkError)
    /\ UNCHANGED <<cChunk, cCancel, cYielded, cBlocks, cRecords, cCancelAt,
                   cRawAfter, cSent>>
    /\ UNCHANGED cChunkLen
    /\ UNCHANGED notClient

\* the chunks the transport may deliver: one record or more
Chunks == UNION {[1..n -> RecordKinds] : n \in 1..MaxRecords}

ClientNext ==
    \/ \E st \in {200, 429} : ClientRequest(st)
    \/ ClientSetCancel
    \/ \E c \in Chunks : ClientChunk(c)
    \/ \E d \in ErrorDatas : ClientRecord(d)
    \/ ClientEnd
    \/ ClientNetworkError

\* ------------------------------------------------------------------------
\* The SQL tool and the database gateway (joinobi)
\*   src/src/joinobi/agents/base.py, src/src/joinobi/agents/anthropic.py,
\*   src/src/joinobi/database/connection.py
\* A str is a sequence of one-character strings.
\* ------------------------------------------------------------------------

LowerCase == <<"a", "b", "c", "d", "e", "f", "g", "h", "i", "j", "k", "l", "m", "n", "o", "p", "q", "r", "s", "t", "u", "v", "w", "x", "y", "z">>
UpperCase == <<"A", "B", "C", "D", "E", "F", "G", "H", "I", "J", "K", "L", "M", "N", "O", "P", "Q", "R", "S", "T", "U", "V", "W", "X", "Y", "Z">>
DigitChars == <<"0", "1", "2", "3", "4", "5", "6", "7", "8", "9">>
Whitespace == {" ", "\n", "\t"}

Range(s) == {s[i] : i \in 1..Len(s)}

\* str.upper(), one character
UpperChar(c) ==
    IF c \in Range(LowerCase)
    THEN UpperCase[CHOOSE i \in 1..Len(LowerCase) : LowerCase[i] = c]
    ELSE c

\* str.upper()
Upper(s) == [i \in 1..Len(s) |-> UpperChar(s[i])]

\* str.strip(): leading and trailing whitespace removed
Strip(s) ==
    LET keep == {i \in 1..Len(s) : s[i] \notin Whitespace}
    IN  IF keep = {} THEN <<>>
        ELSE SubSeq(s, CHOOSE i \in keep : \A j \in keep : i <= j,
                       CHOOSE i \in keep : \A j \in keep : i >= j)

\* str.rstrip(";"): trailing semicolons removed
RStripSemi(s) ==
    LET keep == {i \in 1..Len(s) : s[i] # ";"}
    IN  IF keep = {} THEN <<>>
        ELSE SubSeq(s, 1, CHOOSE i \in keep : \A j \in keep : i >= j)

\* str.startswith(p)
StartsWith(s, p) == Len(s) >= Len(p) /\ SubSeq(s, 1, Len(p)) = p

\* p in s
Contains(s, p) ==
    \E i \in 1..(Len(s) - Len(p) + 1) : SubSeq(s, i, i + Len(p) - 1) = p

\* str(n) of a natural number
RECURSIVE Digits(_)
Digits(n) ==
    IF n < 10 THEN <<DigitChars[n + 1]>>
    ELSE Digits(n \div 10) \o <<DigitChars[(n % 10) + 1]>>

\* write_keywords of _validate_write_operation
write_keywords ==
    {   <<"I", "N", "S", "E", "R", "T">>,
        <<"U", "P", "D", "A", "T", "E">>,
        <<"D", "E", "L", "E", "T", "E">>,
        <<"D", "R", "O", "P">>,
        <<"C", "R", "E", "A", "T", "E">>,
        <<"A", "L", "T", "E", "R">>,
        <<"T", "R", "U", "N", "C", "A", "T", "E">>  }

KwSelect == <<"S", "E", "L", "E", "C", "T">>
KwLimit == <<"L", "I", "M", "I", "T">>

\* the error _validate_write_operation returns, "none" for None
validate_write_operation_no_strip(query) ==
    IF (\E kw \in write_keywords : StartsWith(Upper(query), kw)) /\ ~allowWrite
    THEN "Write operations are not allowed. Only SELECT queries are permitted."
    ELSE "none"

validate_write_operation(query) ==
    LET query_upper == Upper(Strip(query))
        is_write_query == \E kw \in write_keywords : StartsWith(query_upper, kw)
    IN  IF is_write_query /\ ~allowWrite
        THEN "Write operations are not allowed. Only SELECT queries are permitted."
        ELSE "none"

\* f"{query.rstrip(';')} LIMIT {limit};"
WithLimit(query, limit) ==
    RStripSemi(query) \o <<" ", "L", "I", "M", "I", "T", " ">> \o Digits(limit) \o <<";">>

add_limit_to_query(query, limit) ==
    LET query_upper == Upper(Strip(query))
    IN  IF StartsWith(query_upper, KwSelect) /\ ~Contains(query_upper, KwLimit)
        THEN WithLimit(query, limit)
        ELSE query

\* the statements a tool call may carry
Statements ==
    {   <<"s", "e", "l", "e", "c", "t", " ", "*", " ", "f", "r", "o", "m", " ", "t">>,
        <<"S", "E", "L", "E", "C", "T", " ", "i", "d", " ", "F", "R", "O", "M", " ", "t">>,
        <<"S", "e", "l", "e", "c", "t", " ", "r", "a", "t", "e", "_", "l", "i", "m", "i", "t", " ", "f", "r", "o", "m", " ", "t">>,
        <<"s", "e", "l", "e", "c", "t", " ", "*", " ", "f", "r", "o", "m", " ", "t", " ", "l", "i", "m", "i", "t", " ", "2">>,
        <<"S", "E", "L", "E", "C", "T", " ", "*", " ", "F", "R", "O", "M", " ", "t", " ", "L", "I", "M", "I", "T", " ", "2">>,
        <<"i", "n", "s", "e", "r", "t", " ", "i", "n", "t", "o", " ", "t", " ", "v", "a", "l", "u", "e", "s", " ", "(", "1", ")">>,
        <<"I", "N", "S", "E", "R", "T", " ", "I", "N", "T", "O", " ", "t", " ", "V", "A", "L", "U", "E", "S", " ", "(", "1", ")">>,
        <<"U", "p", "d", "a", "t", "e", " ", "t", " ", "s", "e", "t", " ", "a", " ", "=", " ", "1">>,
        <<"D", "E", "L", "E", "T", "E", " ", "F", "R", "O", "M", " ", "t">>,
        <<"d", "r", "o", "p", " ", "t", "a", "b", "l", "e", " ", "t">>,
        <<"C", "R", "E", "A", "T", "E", " ", "T", "A", "B", "L", "E", " ", "u", " ", "(", "a", " ", "i", "n", "t", ")">>,
        <<"a", "l", "t", "e", "r", " ", "t", "a", "b", "l", "e", " ", "t", " ", "a", "d", "d", " ", "b", " ", "i", "n", "t">>,
        <<"T", "R", "U", "N", "C", "A", "T", "E", " ", "t">>,
        <<"w", "i", "t", "h", " ", "x", " ", "a", "s", " ", "(", "s", "e", "l", "e", "c", "t", " ", "1", ")", " ", "s", "e", "l", "e", "c", "t", " ", "*", " ", "f", "r", "o", "m", " ", "x">>  }
\* whitespace before the statement
Leads ==
    {   <<>>,
        <<" ">>,
        <<"\n", "\t", " ">>  }
\* what follows the statement
Tails ==
    {   <<>>,
        <<";">>,
        <<";", ";">>,
        <<";", " ">>  }

Queries == {l \o s \o t : l \in Leads, s \in Statements, t \in Tails}

\* the limits a tool call may carry; tool_input.get("limit", 100)
Limits == {1, 2, DefaultLimit}

NoInput == [query |-> <<>>, limit |-> 0]
NoResult == [kind |-> "none", results |-> <<>>, row_count |-> 0, truncated |-> FALSE]
ErrorPayload == [kind |-> "error", results |-> <<>>, row_count |-> 0, truncated |-> FALSE]

\* results[:limit], for limit >= 0
SliceTo(results, limit) ==
    SubSeq(results, 1, IF Len(results) < limit THEN Len(results) ELSE limit)

\* the success payload of execute_sql
SuccessPayload(results, limit) ==
    [kind |-> "success", results |-> SliceTo(results, limit),
     row_count |-> Len(results), truncated |-> Len(results) > limit]

\* the statement keyword the server sees
FirstWord(query) ==
    LET s == Upper(Strip(query))
        stop == {i \in 1..Len(s) : s[i] \notin Range(UpperCase)}
    IN  IF stop = {} THEN s
        ELSE SubSeq(s, 1, (CHOOSE i \in stop : \A j \in stop : i <= j) - 1)

\* conn.fetch(query) inside the transaction: a write statement leaves its
\* effect in the transaction's view of the database
DbApply(query, view) ==
    IF FirstWord(query) \in write_keywords THEN view \cup {FirstWord(query)} ELSE view

\* (mutant) the transaction is committed
TxnCommit(committed, view) == view

\* transaction.rollback(): the database keeps its committed state
TxnRollback(committed, view) == committed

SqlInit ==
    /\ sqlpc = "idle"
    /\ sqlInput = NoInput
    /\ sqlQuery = <<>>
    /\ sqlDbCalls = 0
    /\ sqlResult = NoResult
    /\ pool = FALSE
    /\ connsOut = 0
    /\ txn = "none"
    /\ db = {}
    /\ txnDb = {}
    /\ fetched = <<>>
    /\ raised = FALSE

\* execute_sql(query, limit) up to the call of db.execute_query
ExecuteSql(query, limit) ==
    /\ sqlpc = "idle"
    /\ sqlInput' = [query |-> query, limit |-> limit]
    /\ sqlDbCalls' = 0
    /\ IF validate_write_operation(query) # "none"
       THEN /\ sqlResult' = ErrorPayload
            /\ sqlQuery' = <<>>
            /\ sqlpc' = "returned"
       ELSE /\ sqlResult' = NoResult
            /\ sqlQuery' = add_limit_to_query(query, limit)
            /\ sqlpc' = "execute_query"
    /\ UNCHANGED <<allowWrite, pool, connsOut, txn, db, txnDb, fetched, raised>>
    /\ UNCHANGED notSql

\* execute_query: get_pool (created on first use), pool.acquire,
\* transaction.start
ExecuteQuery ==
    /\ sqlpc = "execute_query"
    /\ sqlDbCalls' = sqlDbCalls + 1
    /\ pool' = TRUE
    /\ connsOut' = connsOut + 1
    /\ txn' = "started"
    /\ txnDb' = db
    /\ sqlpc' = "fetch"
    /\ UNCHANGED <<allowWrite, sqlInput, sqlQuery, sqlResult, db, fetched, raised>>
    /\ UNCHANGED notSql

\* conn.fetch returns k rows
Fetch(k) ==
    /\ sqlpc = "fetch"
    /\ txnDb' = DbApply(sqlQuery, txnDb)
    /\ fetched' = [i \in 1..k |-> i]
    /\ raised' = FALSE
    /\ sqlpc' = "finally"
    /\ UNCHANGED <<allowWrite, sqlInput, sqlQuery, sqlDbCalls, sqlResult, pool,
                   connsOut, txn, db>>
    /\ UNCHANGED notSql

\* conn.fetch raises
FetchRaises ==
    /\ sqlpc = "fetch"
    /\ fetched' = <<>>
    /\ raised' = TRUE
    /\ sqlpc' = "finally"
    /\ UNCHANGED <<allowWrite, sqlInput, sqlQuery, sqlDbCalls, sqlResult, pool,
                   connsOut, txn, db, txnDb>>
    /\ UNCHANGED notSql

\* the finally clause rolls back, the connection goes back to the pool, and
\* execute_sql builds its payload from the rows or from the exception
Finally ==
    /\ sqlpc = "finally"
    /\ db' = TxnRollback(db, txnDb)
    /\ txn' = "rolledback"
    /\ connsOut' = connsOut - 1
    /\ sqlResult' = IF raised THEN ErrorPayload
                    ELSE SuccessPayload(fetched, sqlInput.limit)
    /\ sqlpc' = "returned"
    /\ UNCHANGED <<allowWrite, sqlInput, sqlQuery, sqlDbCalls, pool, txnDb,
                   fetched, raised>>
    /\ UNCHANGED notSql

\* process_tool_call hands the payload to its caller; the call is over
ToolReturn ==
    /\ sqlpc = "returned"
    /\ sqlpc' = "idle"
    /\ sqlInput' = NoInput
    /\ sqlQuery' = <<>>
    /\ sqlDbCalls' = 0
    /\ sqlResult' = NoResult
    /\ fetched' = <<>>
    /\ raised' = FALSE
    /\ UNCHANGED <<allowWrite, pool, connsOut, txn, db, txnDb>>
    /\ UNCHANGED notSql

\* DatabaseConnection.close
ClosePool ==
    /\ sqlpc = "idle"
    /\ pool
    /\ pool' = FALSE
    /\ UNCHANGED <<allowWrite, sqlpc, sqlInput, sqlQuery, sqlDbCalls, sqlResult,
                   connsOut, txn, db, txnDb, fetched, raised>>
    /\ UNCHANGED notSql

SqlNext ==
    \/ \E q \in Queries, l \in Limits : ExecuteSql(q, l)
    \/ ExecuteQuery
    \/ \E k \in 0..MaxRows : Fetch(k)
    \/ FetchRaises
    \/ Finally
    \/ ToolReturn
    \/ ClosePool

\* ------------------------------------------------------------------------
\* The tool registry and the agents' tool instances
\*   src/src/sqlsaber/agents/base.py, src/src/sqlsaber/agents/pydantic_ai_agent.py,
\*   src/src/sqlsaber/tools/knowledge_tool.py, src/tests/test_tools/test_registry.py
\* ------------------------------------------------------------------------

\* tool_registry.list_tools(): the registered names, in registration order
list_tools == <<"list_tables", "execute_sql", "search_knowledge">>
\* isinstance(tool, SQLTool)
IsSQLTool(name) == name \in {"list_tables", "execute_sql"}
\* isinstance(tool, KnowledgeTool)
IsKnowledgeTool(name) == name = "search_knowledge"

\* the database connections (and knowledge contexts) an agent may be given
Connections == {"db_a", "db_b"}

Image(f) == {f[x] : x \in DOMAIN f}

\* a tool object as its class constructs it
NewTool(name) == [name |-> name, db |-> "None", allow_dangerous |-> FALSE,
                  database_name |-> "None"]

\* registry.create_tool(name) for every listed name: fresh objects, appended
\* to the heap
CreateAll(heap) == heap \o [i \in 1..Len(list_tools) |-> NewTool(list_tools[i])]

\* the objects CreateAll(heap) has just created, by tool name
Fresh(heap) ==
    [n \in Range(list_tools) |->
        Len(heap) + CHOOSE i \in 1..Len(list_tools) : list_tools[i] = n]

\* tool.set_connection(db, schema_manager) on the SQL tools among ids
SetConnection(heap, ids, conn) ==
    [o \in 1..Len(heap) |->
        IF o \in Image(ids) /\ IsSQLTool(heap[o].name)
        THEN [heap[o] EXCEPT !.db = conn] ELSE heap[o]]

\* tool.allow_dangerous = flag on the SQL tools among ids
SetDangerous(heap, ids, flag) ==
    [o \in 1..Len(heap) |->
        IF o \in Image(ids) /\ IsSQLTool(heap[o].name)
        THEN [heap[o] EXCEPT !.allow_dangerous = flag] ELSE heap[o]]

\* tool.set_context(database_name, knowledge_manager) on the knowledge tools
SetContext(heap, ids, name) ==
    [o \in 1..Len(heap) |->
        IF o \in Image(ids) /\ IsKnowledgeTool(heap[o].name)
        THEN [heap[o] EXCEPT !.database_name = name] ELSE heap[o]]

ToolsInit ==
    /\ toolHeap = <<>>
    /\ toolAgents = <<>>

\* (mutant) every agent after the first takes the first agent's objects
SharedTools(heap, agents) ==
    IF agents = <<>> THEN Fresh(heap) ELSE agents[1].tools

\* self._tools = {name: tool_registry.create_tool(name) for name in list_tools()}
PrivateTools(heap, agents) == Fresh(heap)

\* BaseSQLAgent.__init__: private tool objects, then _init_tools
NewBaseAgent(conn) ==
    /\ Len(toolAgents) < MaxAgents
    /\ LET tools == PrivateTools(toolHeap, toolAgents)
           heap == SetConnection(CreateAll(toolHeap), tools, conn)
       IN  /\ toolHeap' = heap
           /\ toolAgents' = Append(toolAgents,
                  [kind |-> "base", tools |-> tools,
                   seen |-> [n \in Range(list_tools) |-> heap[tools[n]]]])
    /\ UNCHANGED notTools

\* SQLSaberAgent.__init__: _configure_sql_tools gets an object per name from
\* the registry and sets its connection; _register_tools gets an object per
\* name again and registers its execute method with the agent
NewSQLSaberAgent(conn) ==
    /\ Len(toolAgents) < MaxAgents
    /\ LET configured == SetConnection(CreateAll(toolHeap), Fresh(toolHeap), conn)
           tools == Fresh(configured)
           heap == CreateAll(configured)
       IN  /\ toolHeap' = heap
           /\ toolAgents' = Append(toolAgents,
                  [kind |-> "sqlsaber", tools |-> tools,
                   seen |-> [n \in Range(list_tools) |-> heap[tools[n]]]])
    /\ UNCHANGED notTools

\* the owner of agent a configures a's tools: a connection and the dangerous
\* flag for the SQL tools, the knowledge context for the knowledge tools
ConfigureTools(a, conn, flag, name) ==
    /\ a \in 1..Len(toolAgents)
    /\ LET tools == toolAgents[a].tools
           heap == SetContext(
                       SetDangerous(SetConnection(toolHeap, tools, conn), tools, flag),
                       tools, name)
       IN  /\ toolHeap' = heap
           /\ toolAgents' = [toolAgents EXCEPT
                  ![a].seen = [n \in Range(list_tools) |-> heap[tools[n]]]]
    /\ UNCHANGED notTools

ToolsNext ==
    \/ \E c \in Connections : NewBaseAgent(c)
    \/ \E c \in Connections : NewSQLSaberAgent(c)
    \/ \E a \in 1..MaxAgents, c \in Connections, f \in BOOLEAN, n \in Connections :
          ConfigureTools(a, c, f, n)

\* ------------------------------------------------------------------------
\* The schema cache: SchemaManager
\*   src/src/sqlsaber/database/schema.py
\* ------------------------------------------------------------------------

\* table_pattern = None
NoPattern == "<None>"
\* the table patterns a call may carry
Patterns == {NoPattern, "u%", "all"}

\* cache_key = f"schema:{table_pattern or 'all'}"
CacheKey(table_pattern) ==
    <<"schema:", IF table_pattern \in {NoPattern, ""} THEN "all" ELSE table_pattern>>

\* cache_key = "list_tables"
ListTablesKey == <<"list_tables">>

\* the key of a call: op is the method, pattern its argument if it has one
KeyOf(call) ==
    IF call.op = "list_tables" THEN ListTablesKey ELSE CacheKey(call.pattern)

CacheKeys == {CacheKey(p) : p \in Patterns} \cup {ListTablesKey}

NoEntry == [present |-> FALSE, cached_time |-> 0, cached_data |-> <<>>]
NoCallYet == [valid |-> FALSE, op |-> "none", pattern |-> NoPattern, at |-> 0,
              result |-> <<>>, queried |-> FALSE, afterClear |-> FALSE]
SchemaCall(op, table_pattern, at) ==
    [valid |-> TRUE, op |-> op, pattern |-> table_pattern, at |-> at,
     result |-> <<>>, queried |-> FALSE, afterClear |-> FALSE]

\* _fetch_schema_from_db(table_pattern): the schema of the matching tables as
\* the database holds it now
FetchSchema(table_pattern, version) == <<table_pattern, version>>

\* introspector.list_tables_info(db), formatted: the tables of the database
\* as it is now
ListTablesInfo(version) == <<"<tables>", version>>

\* (mutant) a clear that drops nothing
NothingCleared(cache) == cache

\* self._schema_cache.clear()
Cleared(cache) == [k \in CacheKeys |-> NoEntry]

\* (mutant) the comparison of the age with the TTL is inverted
IsFreshInverted(cached_time, t) == t - cached_time > cache_ttl

\* time.time() - cached_time < self.cache_ttl
IsFresh(cached_time, t) == t - cached_time < cache_ttl

\* _get_cached_schema(cache_key) is not None
CacheHit(key) ==
    /\ schemaCache[key].present
    /\ IsFresh(schemaCache[key].cached_time, now)

CacheInit ==
    /\ now = 0
    /\ dbVersion = 0
    /\ schemaCache = [k \in CacheKeys |-> NoEntry]
    /\ schpc = "idle"
    /\ schCall = NoCallYet
    /\ schFetched = <<>>
    /\ prevCall = NoCallYet
    /\ lastCall = NoCallYet
    /\ clearedBetween = FALSE

\* time passes
Tick ==
    /\ now < MaxClock
    /\ now' = now + 450
    /\ UNCHANGED <<dbVersion, schemaCache, schpc, schCall, schFetched, prevCall,
                   lastCall, clearedBetween>>
    /\ UNCHANGED notCache

\* the schema of the database changes under the manager
SchemaChange ==
    /\ dbVersion < MaxVersion
    /\ dbVersion' = dbVersion + 1
    /\ UNCHANGED <<now, schemaCache, schpc, schCall, schFetched, prevCall, lastCall,
                   clearedBetween>>
    /\ UNCHANGED notCache

\* get_schema_info(table_pattern): a fresh entry is returned, otherwise the
\* introspector is started
GetSchemaInfo(table_pattern) ==
    /\ schpc = "idle"
    /\ LET key == CacheKey(table_pattern)
           call == SchemaCall("get_schema_info", table_pattern, now)
       IN  IF CacheHit(key)
           THEN /\ prevCall' = lastCall
                /\ lastCall' = [call EXCEPT !.result = schemaCache[key].cached_data,
                                            !.afterClear = clearedBetween]
                /\ clearedBetween' = FALSE
                /\ UNCHANGED <<schpc, schCall, schFetched>>
           ELSE /\ schpc' = "fetching"
                /\ schCall' = [call EXCEPT !.queried = TRUE]
                /\ schFetched' = FetchSchema(table_pattern, dbVersion)
                /\ UNCHANGED <<prevCall, lastCall, clearedBetween>>
    /\ UNCHANGED <<now, dbVersion, schemaCache>>
    /\ UNCHANGED notCache

\* list_tables(): a fresh entry under "list_tables" is returned, otherwise
\* the introspector is started
ListTables ==
    /\ schpc = "idle"
    /\ LET call == SchemaCall("list_tables", NoPattern, now)
       IN  IF CacheHit(ListTablesKey)
           THEN /\ prevCall' = lastCall
                /\ lastCall' = [call EXCEPT !.result = schemaCache[ListTablesKey].cached_data,
                                            !.afterClear = clearedBetween]
                /\ clearedBetween' = FALSE
                /\ UNCHANGED <<schpc, schCall, schFetched>>
           ELSE /\ schpc' = "fetching"
                /\ schCall' = [call EXCEPT !.queried = TRUE]
                /\ schFetched' = ListTablesInfo(dbVersion)
                /\ UNCHANGED <<prevCall, lastCall, clearedBetween>>
    /\ UNCHANGED <<now, dbVersion, schemaCache>>
    /\ UNCHANGED notCache

\* the introspector returns: the result is cached under the key with the
\* time of the store, and returned
FetchReturns ==
    /\ schpc = "fetching"
    /\ schemaCache' = [schemaCache EXCEPT ![KeyOf(schCall)] =
           [present |-> TRUE, cached_time |-> now, cached_data |-> schFetched]]
    /\ prevCall' = lastCall
    /\ lastCall' = [schCall EXCEPT !.result = schFetched,
                                   !.afterClear = clearedBetween]
    /\ clearedBetween' = FALSE
    /\ schpc' = "idle"
    /\ schCall' = NoCallYet
    /\ schFetched' = <<>>
    /\ UNCHANGED <<now, dbVersion>>
    /\ UNCHANGED notCache

\* clear_schema_cache()
ClearSchemaCache ==
    /\ schpc = "idle"
    /\ schemaCache' = Cleared(schemaCache)
    /\ clearedBetween' = TRUE
    /\ UNCHANGED <<now, dbVersion, schpc, schCall, schFetched, prevCall, lastCall>>
    /\ UNCHANGED notCache

CacheNext ==
    \/ Tick
    \/ SchemaChange
    \/ \E p \in Patterns : GetSchemaInfo(p)
    \/ ListTables
    \/ FetchReturns
    \/ ClearSchemaCache

\* ------------------------------------------------------------------------
\* Tool input reassembly from partial_json deltas (joinobi)
\*   src/src/joinobi/agents/anthropic.py
\* ------------------------------------------------------------------------

\* a JSON value: an object (items: its members in order), a number (n), a
\* string (s: its characters) or one of true, false, null
JValue(t, n, s, items) == [t |-> t, n |-> n, s |-> s, items |-> items]
EmptyObject == JValue("object", 0, <<>>, <<>>)
JFail == [ok |-> FALSE, v |-> JValue("none", 0, <<>>, <<>>), next |-> 0]
JOk(v, next) == [ok |-> TRUE, v |-> v, next |-> next]

\* the index of the first character at or after i that is not whitespace
SkipWs(s, i) ==
    LET stop == {j \in i..Len(s) : s[j] \notin Whitespace \cup {"\r"}}
    IN  IF stop = {} THEN Len(s) + 1 ELSE CHOOSE j \in stop : \A k \in stop : j <= k

\* int(digits)
RECURSIVE ToInt(_)
ToInt(ds) ==
    IF ds = <<>> THEN 0
    ELSE 10 * ToInt(SubSeq(ds, 1, Len(ds) - 1))
         + (CHOOSE d \in 1..10 : DigitChars[d] = ds[Len(ds)]) - 1

\* a number at i: 0, or a run of digits that does not start with 0
ParseNumber(s, i) ==
    LET stop == {j \in i..Len(s) : s[j] \notin Range(DigitChars)}
        end == IF s[i] = "0" THEN i + 1
               ELSE IF stop = {} THEN Len(s) + 1
               ELSE CHOOSE j \in stop : \A k \in stop : j <= k
    IN  IF end = i THEN JFail
        ELSE JOk(JValue("number", ToInt(SubSeq(s, i, end - 1)), <<>>, <<>>), end)

\* a string at i: the characters up to the next quote
ParseString(s, i) ==
    LET close == {j \in (i + 1)..Len(s) : s[j] = "\""}
    IN  IF s[i] # "\"" \/ close = {} THEN JFail
        ELSE LET c == CHOOSE j \in close : \A k \in close : j <= k
             IN  JOk(JValue("string", 0, SubSeq(s, i + 1, c - 1), <<>>), c + 1)

\* one of the literals at i
ParseLiteral(s, i) ==
    LET at(w) == i + Len(w) - 1 <= Len(s) /\ SubSeq(s, i, i + Len(w) - 1) = w
    IN  IF at(<<"t", "r", "u", "e">>) THEN JOk(JValue("true", 0, <<>>, <<>>), i + 4)
        ELSE IF at(<<"f", "a", "l", "s", "e">>) THEN JOk(JValue("false", 0, <<>>, <<>>), i + 5)
        ELSE IF at(<<"n", "u", "l", "l">>) THEN JOk(JValue("null", 0, <<>>, <<>>), i + 4)
        ELSE JFail

\* dict[key] = value: a key already present keeps its place
PutMember(items, key, value) ==
    IF \E m \in 1..Len(items) : items[m].k = key
    THEN [m \in 1..Len(items) |->
             IF items[m].k = key THEN [k |-> key, v |-> value] ELSE items[m]]
    ELSE Append(items, [k |-> key, v |-> value])

RECURSIVE ParseValue(_, _)
RECURSIVE ParseMembers(_, _, _)

\* the members of an object from i on, up to and including its closing brace
ParseMembers(s, i, items) ==
    LET key == IF i <= Len(s) THEN ParseString(s, i) ELSE JFail
        colon == SkipWs(s, key.next)
        val == IF key.ok /\ colon <= Len(s) /\ s[colon] = ":"
               THEN ParseValue(s, SkipWs(s, colon + 1)) ELSE JFail
        sep == SkipWs(s, val.next)
    IN  IF ~val.ok \/ sep > Len(s) THEN JFail
        ELSE IF s[sep] = "}"
        THEN JOk(JValue("object", 0, <<>>, PutMember(items, key.v.s, val.v)), sep + 1)
        ELSE IF s[sep] = ","
        THEN ParseMembers(s, SkipWs(s, sep + 1), PutMember(items, key.v.s, val.v))
        ELSE JFail

\* the value that starts at i
ParseValue(s, i) ==
    IF i > Len(s) THEN JFail
    ELSE IF s[i] = "{"
    THEN LET j == SkipWs(s, i + 1)
         IN  IF j <= Len(s) /\ s[j] = "}" THEN JOk(EmptyObject, j + 1)
             ELSE ParseMembers(s, j, <<>>)
    ELSE IF s[i] = "\"" THEN ParseString(s, i)
    ELSE IF s[i] \in Range(DigitChars) THEN ParseNumber(s, i)
    ELSE ParseLiteral(s, i)

\* json.loads(s): ok is FALSE where it raises JSONDecodeError
json_loads(s) ==
    LET r == ParseValue(s, SkipWs(s, 1))
    IN  IF r.ok /\ SkipWs(s, r.next) = Len(s) + 1 THEN r ELSE JFail

\* the input texts the provider may stream for one tool_use block
JsonTexts ==
    {   <<"{", "}">>,
        <<"{", "\"", "q", "\"", ":", "1", "}">>,
        <<"{", "\"", "q", "\"", ":", " ", "\"", "a", "\"", ",", " ", "\"", "n", "\"", ":", " ", "1", "2", "}">>,
        <<"1", "2">>,
        <<" ", "{", "\"", "a", "\"", ":", "{", "\"", "b", "\"", ":", "t", "r", "u", "e", "}", "}", " ">>,
        <<"{", "\"", "q", "\"", ":", "1", "}", "}">>,
        <<"{", "\"", "q", "\"", ":">>,
        <<"n", "u", "l">>  }

\* the lengths a fragment may have, the empty fragment included
FragmentLengths == UNION {0..Len(t) : t \in JsonTexts}

JsonInit ==
    /\ jpc = "idle"
    /\ jText = <<>>
    /\ jPos = 0
    /\ jBlock = [input |-> EmptyObject, partial |-> <<>>]
    /\ jFrags = 0

\* (mutant) the fragment alone is parsed
FragmentOnly(current_json, partial_json) == partial_json

\* current_json += event.delta.partial_json
Accumulate(current_json, partial_json) == current_json \o partial_json

\* content_block_start of a tool_use block: appended with input {}
JsonBlockStart(text) ==
    /\ jpc = "idle"
    /\ jpc' = "streaming"
    /\ jText' = text
    /\ jPos' = 0
    /\ jBlock' = [input |-> EmptyObject, partial |-> <<>>]
    /\ jFrags' = 0
    /\ UNCHANGED notJson

\* content_block_delta with partial_json: the next n characters of the text
JsonDelta(n) ==
    /\ jpc = "streaming"
    /\ jFrags < MaxFragments
    /\ jPos + n <= Len(jText)
    /\ LET partial_json == SubSeq(jText, jPos + 1, jPos + n)
           current_json == Accumulate(jBlock.partial, partial_json)
           parsed == json_loads(current_json)
       IN  jBlock' = [partial |-> current_json,
                      input |-> IF parsed.ok THEN parsed.v ELSE jBlock.input]
    /\ jPos' = jPos + n
    /\ jFrags' = jFrags + 1
    /\ UNCHANGED <<jpc, jText>>
    /\ UNCHANGED notJson

\* message_stop: the block is final
JsonStop ==
    /\ jpc = "streaming"
    /\ jpc' = "done"
    /\ UNCHANGED <<jText, jPos, jBlock, jFrags>>
    /\ UNCHANGED notJson

JsonNext ==
    \/ \E t \in JsonTexts : JsonBlockStart(t)
    \/ \E n \in FragmentLengths : JsonDelta(n)
    \/ JsonStop

\* ------------------------------------------------------------------------
\* The knowledge store, its manager and the search_knowledge tool
\*   src/src/sqlsaber/knowledge/sqlite_store.py,
\*   src/src/sqlsaber/knowledge/manager.py, src/src/sqlsaber/tools/knowledge_tool.py
\* ------------------------------------------------------------------------

\* the database names entries are saved under
DatabaseNames == {"db_a", "db_b"}
\* the indexed words of an entry (its name, description and sql)
EntryTexts == {{"revenue"}, {"revenue", "monthly"}}
\* the whitespace-separated tokens of a query: a word, plain or written with
\* punctuation FTS5 rejects in a bare term (as in revenue.), a word in double
\* quotes, and a double quote on its own (no word is left of it without its
\* quote)
Token(word, plain, quoted) == [word |-> word, plain |-> plain, quoted |-> quoted]
QueryTokens == {Token("revenue", TRUE, FALSE),
                Token("monthly", TRUE, FALSE),
                Token("revenue", FALSE, FALSE),
                Token("", FALSE, FALSE)}
QuotedToken == Token("revenue", TRUE, TRUE)
\* query.split(): no token for a blank query
KnowQueries == {<<>>, <<QuotedToken>>} \cup {<<t>> : t \in QueryTokens}
                      \cup {<<s, t>> : s, t \in QueryTokens}
\* the limit arguments of a search
KnowLimits == {0, 1, 2}

NoSearch == [valid |-> FALSE, via |-> "none", database_name |-> "None",
             error |-> FALSE, limit |-> 0, blank |-> FALSE, malformed |-> FALSE,
             retry |-> FALSE, queries |-> 0, raised |-> FALSE]

\* an FTS5 expression: the terms it matches, whether FTS5 accepts it, and
\* whether its terms are written in double quotes
FtsQuery(terms, valid, quoted) == [terms |-> terms, valid |-> valid, quoted |-> quoted]

\* _prepare_fts_query: the tokens joined by OR, or the query as it is when it
\* holds a double quote; the expression is valid FTS5 only if every token is
\* a bare or quoted term
prepare_fts_query(tokens) ==
    FtsQuery({tokens[i].word : i \in 1..Len(tokens)},
             \A i \in 1..Len(tokens) : tokens[i].plain,
             \E i \in 1..Len(tokens) : tokens[i].quoted)

\* _quoted_token_query: the double quotes taken out of every token, every
\* token that is left quoted, joined by OR; "" (no term) if none is left
quoted_token_query(tokens) ==
    FtsQuery({tokens[i].word : i \in 1..Len(tokens)} \ {""}, TRUE, TRUE)

\* knowledge_fts MATCH ?
FtsMatch(row, fts) == row.words \cap fts.terms # {}

\* (mutant) rows of every database are in scope
InScopeAny(row, database_name) == TRUE

\* AND k.database_name = ?
InScope(row, database_name) == row.database_name = database_name

\* ORDER BY bm25(knowledge_fts), k.updated_at DESC: a row that holds more of
\* the terms ranks first, then the row updated last
RanksBefore(r, o, fts) ==
    LET score(x) == Cardinality(x.words \cap fts.terms)
    IN  \/ score(r) > score(o)
        \/ score(r) = score(o) /\ r.updated_at > o.updated_at

RECURSIVE Ranked(_, _)
Ranked(rows, fts) ==
    IF rows = {} THEN <<>>
    ELSE LET first == CHOOSE r \in rows :
                         \A o \in rows \ {r} : RanksBefore(r, o, fts)
         IN  <<first>> \o Ranked(rows \ {first}, fts)

\* what _run_fts_query gives its caller: rows, or the engine's error
Fetched(rows, error) == [rows |-> rows, raised |-> error]

\* the rows the statement selects, in rank order
FtsHits(rows, database_name, fts) ==
    Ranked({rows[i] : i \in {j \in 1..Len(rows) :
               FtsMatch(rows[j], fts) /\ InScope(rows[j], database_name)}}, fts)

\* (mutant) _run_fts_query without its except clause
run_fts_query_uncaught(rows, database_name, fts, limit) ==
    IF ~fts.valid THEN Fetched(<<>>, TRUE)
    ELSE LET ranked == FtsHits(rows, database_name, fts)
         IN  Fetched(SubSeq(ranked, 1, IF Len(ranked) < limit THEN Len(ranked)
                                       ELSE limit), FALSE)

\* (mutant) _run_fts_query without LIMIT ?
run_fts_query_unlimited(rows, database_name, fts, limit) ==
    IF ~fts.valid THEN Fetched(<<>>, FALSE)
    ELSE Fetched(FtsHits(rows, database_name, fts), FALSE)

\* _run_fts_query(database_name, query, limit); an OperationalError is
\* caught and gives []
run_fts_query(rows, database_name, fts, limit) ==
    IF ~fts.valid THEN Fetched(<<>>, FALSE)
    ELSE LET ranked == FtsHits(rows, database_name, fts)
         IN  Fetched(SubSeq(ranked, 1, IF Len(ranked) < limit THEN Len(ranked)
                                       ELSE limit), FALSE)

\* max(1, limit)
AtLeastOne(limit) == IF limit < 1 THEN 1 ELSE limit

\* what search gives: the entries found, the FTS queries it ran, whether the
\* second was the quoted-token query, and whether it raised the engine's error
Searched(found, queries, error) ==
    [found |-> found, queries |-> queries, raised |-> error]

\* SQLiteKnowledgeStore.search(database_name, query, limit)
search(rows, database_name, tokens, limit) ==
    IF tokens = <<>> THEN Searched(<<>>, 0, FALSE)
    ELSE LET final_query == prepare_fts_query(tokens)
             first == run_fts_query(rows, database_name, final_query,
                                    AtLeastOne(limit))
             fallback_query == quoted_token_query(tokens)
             second == run_fts_query(rows, database_name, fallback_query,
                                     AtLeastOne(limit))
         IN  IF first.raised THEN Searched(<<>>, 1, TRUE)
             ELSE IF first.rows # <<>> THEN Searched(first.rows, 1, FALSE)
             ELSE IF fallback_query.terms = {} \/ fallback_query = final_query
             THEN Searched(<<>>, 1, FALSE)
             ELSE Searched(second.rows, 2, second.raised)

StoreSearch(rows, database_name, tokens, limit) ==
    search(rows, database_name, tokens, limit).found

\* KnowledgeManager.search_knowledge(database_name, query, limit)
search_knowledge(rows, database_name, tokens, limit) ==
    IF tokens = <<>> THEN Searched(<<>>, 0, FALSE)
    ELSE search(rows, database_name, tokens, AtLeastOne(limit))

ManagerSearch(rows, database_name, tokens, limit) ==
    search_knowledge(rows, database_name, tokens, limit).found

\* the entry as the tool's payload lists it: id and texts, no database name
ToolEntry(row) == [id |-> row.id, words |-> row.words]
\* _row_to_entry: the entry as store and manager return it
StoreEntry(row) == row

KnowInit ==
    /\ kRows = <<>>
    /\ kClock = 0
    /\ kSearch = NoSearch
    /\ kResult = <<>>

\* add_knowledge: a new entry with a fresh id, stamped with the time
KnowAdd(database_name, words) ==
    /\ kClock < MaxEntries
    /\ kClock' = kClock + 1
    /\ kRows' = Append(kRows, [id |-> kClock + 1, database_name |-> database_name,
                              words |-> words, updated_at |-> kClock + 1])
    /\ kSearch' = NoSearch
    /\ kResult' = <<>>
    /\ UNCHANGED notKnow

\* remove(database_name, entry_id)
KnowRemove(database_name, entry_id) ==
    /\ \E i \in 1..Len(kRows) : kRows[i].id = entry_id
    /\ kRows' = SelectSeq(kRows, LAMBDA r :
                   ~(r.database_name = database_name /\ r.id = entry_id))
    /\ kSearch' = NoSearch
    /\ kResult' = <<>>
    /\ UNCHANGED kClock
    /\ UNCHANGED notKnow

\* clear(database_name)
KnowClear(database_name) ==
    /\ kRows # <<>>
    /\ kRows' = SelectSeq(kRows, LAMBDA r : r.database_name # database_name)
    /\ kSearch' = NoSearch
    /\ kResult' = <<>>
    /\ UNCHANGED kClock
    /\ UNCHANGED notKnow

\* store.search or manager.search_knowledge
KnowSearch(via, database_name, tokens, limit) ==
    /\ kRows # <<>>
    /\ ~kSearch.valid
    /\ LET res == IF via = "store"
                  THEN search(kRows, database_name, tokens, limit)
                  ELSE search_knowledge(kRows, database_name, tokens, limit)
       IN  /\ kSearch' = [NoSearch EXCEPT
                             !.valid = TRUE, !.via = via,
                             !.database_name = database_name, !.limit = limit,
                             !.blank = (tokens = <<>>),
                             !.malformed = (tokens # <<>>
                                            /\ ~prepare_fts_query(tokens).valid),
                             !.retry = (quoted_token_query(tokens).terms # {}),
                             !.queries = res.queries, !.raised = res.raised]
           /\ kResult' = [i \in 1..Len(res.found) |-> StoreEntry(res.found[i])]
    /\ UNCHANGED <<kRows, kClock>>
    /\ UNCHANGED notKnow

\* SearchKnowledgeTool.execute(query) of a tool whose context is database_name
\* ("None": no context was set)
KnowToolSearch(database_name, tokens) ==
    /\ kRows # <<>>
    /\ ~kSearch.valid
    /\ IF tokens = <<>> \/ database_name = "None"
       THEN /\ kSearch' = [NoSearch EXCEPT !.valid = TRUE, !.via = "tool",
                              !.database_name = database_name, !.error = TRUE]
            /\ kResult' = <<>>
       ELSE /\ kSearch' = [NoSearch EXCEPT !.valid = TRUE, !.via = "tool",
                              !.database_name = database_name,
                              !.limit = ToolLimit]
            /\ LET found == ManagerSearch(kRows, database_name, tokens, ToolLimit)
               IN  kResult' = [i \in 1..Len(found) |-> ToolEntry(found[i])]
    /\ UNCHANGED <<kRows, kClock>>
    /\ UNCHANGED notKnow

\* the caller has the result of the search
KnowSearchDone ==
    /\ kSearch.valid
    /\ kSearch' = NoSearch
    /\ kResult' = <<>>
    /\ UNCHANGED <<kRows, kClock>>
    /\ UNCHANGED notKnow

KnowNext ==
    \/ \E d \in DatabaseNames, w \in EntryTexts : KnowAdd(d, w)
    \/ \E d \in DatabaseNames, e \in 1..MaxEntries : KnowRemove(d, e)
    \/ \E d \in DatabaseNames : KnowClear(d)
    \/ \E v \in {"store", "manager"}, d \in DatabaseNames, q \in KnowQueries,
          l \in KnowLimits : KnowSearch(v, d, q, l)
    \/ \E d \in DatabaseNames \cup {"None"}, q \in KnowQueries : KnowToolSearch(d, q)
    \/ KnowSearchDone

\* ------------------------------------------------------------------------
\* The visualization tool and its spec sub-agent
\*   src/plugins/viz/src/sqlsaber_viz/tools.py, spec_agent.py, spec.py
\* ------------------------------------------------------------------------

\* the file keys a call or a spec may name
FileAbc == <<"r", "e", "s", "u", "l", "t", "_", "a", "b", "c", ".", "j", "s", "o", "n">>
FileNoPrefix == <<"a", "b", "c", ".", "j", "s", "o", "n">>
FileEmptyId == <<"r", "e", "s", "u", "l", "t", "_", ".", "j", "s", "o", "n">>
FileSpace == <<"r", "e", "s", "u", "l", "t", "_", "a", " ", "b", ".", "j", "s", "o", "n">>
FileNewline == <<"r", "e", "s", "u", "l", "t", "_", "a", "b", "c", ".", "j", "s", "o", "n", "\n">>
FileNone == <<>>

FilePrefix == <<"r", "e", "s", "u", "l", "t", "_">>
FileSuffix == <<".", "j", "s", "o", "n">>
\* [A-Za-z0-9._-]
HandleChars ==
    Range(LowerCase) \cup Range(UpperCase) \cup Range(DigitChars) \cup {".", "_", "-"}

\* ^result_[A-Za-z0-9._-]+\.json matched against the whole of f
FullMatch(f) ==
    /\ Len(f) >= Len(FilePrefix) + 1 + Len(FileSuffix)
    /\ SubSeq(f, 1, Len(FilePrefix)) = FilePrefix
    /\ SubSeq(f, Len(f) - Len(FileSuffix) + 1, Len(f)) = FileSuffix
    /\ \A i \in (Len(FilePrefix) + 1)..(Len(f) - Len(FileSuffix)) : f[i] \in HandleChars

\* TOOL_OUTPUT_FILE_PATTERN.match(file): Python's $ also matches before one
\* trailing newline
TOOL_OUTPUT_FILE_PATTERN(f) ==
    \/ FullMatch(f)
    \/ f # <<>> /\ f[Len(f)] = "\n" /\ FullMatch(SubSeq(f, 1, Len(f) - 1))

\* DataSource.file: Field(pattern=...), the whole string must match
DataSourceFileValid(f) == FullMatch(f)

\* the transforms of a spec
SortTransform(field, dir) == [kind |-> "sort", field |-> field, dir |-> dir, limit |-> 0]
LimitTransform(n) == [kind |-> "limit", field |-> "", dir |-> "", limit |-> n]
FilterTransform(field) == [kind |-> "filter", field |-> field, dir |-> "", limit |-> 0]

\* SortItem.dir is asc or desc, LimitTransform.limit is at least 1
TransformValid(t) ==
    CASE t.kind = "sort" -> t.dir \in {"asc", "desc"}
      [] t.kind = "limit" -> t.limit >= 1
      [] t.kind = "filter" -> TRUE
      [] OTHER -> FALSE

ChartTypes == {"bar", "line", "scatter", "boxplot", "histogram"}

\* a spec as a dict: the data source file, the chart's type ("" when the key
\* is missing), the y field of its encoding and the transforms
SpecDict(file, type, y, transform) ==
    [file |-> file, type |-> type, y |-> y, transform |-> transform]

NoSpec == SpecDict(<<>>, "", "", <<>>)

\* VizSpec.model_validate(data) succeeds
VizSpecValid(d) ==
    /\ DataSourceFileValid(d.file)
    /\ d.type \in ChartTypes
    /\ \A i \in 1..Len(d.transform) : TransformValid(d.transform[i])

\* what the sub-agent may answer: a JSON object, a JSON object inside a
\* markdown fence, a JSON array, or text with no JSON in it
Output(form, dict) == [form |-> form, dict |-> dict]
Outputs ==
    { Output("json", SpecDict(FileAbc, "bar", "sales", <<>>)),
      Output("json", SpecDict(FileAbc, "bar", "sales", <<SortTransform("region", "asc")>>)),
      Output("json", SpecDict(FileAbc, "bar", "sales", <<LimitTransform(5)>>)),
      Output("json", SpecDict(FileAbc, "bar", "sales",
                              <<FilterTransform("region"), SortTransform("region", "asc"),
                                LimitTransform(5)>>)),
      Output("fenced", SpecDict(FileAbc, "line", "sales", <<FilterTransform("region")>>)),
      Output("json", SpecDict(FileAbc, "", "sales", <<>>)),
      Output("json", SpecDict(FileNoPrefix, "bar", "sales", <<>>)),
      Output("json", SpecDict(FileAbc, "bar", "sales", <<LimitTransform(0)>>)),
      Output("json", SpecDict(FileAbc, "pie", "sales", <<>>)),
      Output("array", NoSpec),
      Output("text", NoSpec) }

\* an exception: its class and what str(exc) says
Exc(cls, detail) == [cls |-> cls, detail |-> detail]
NoExc == Exc("none", "")

\* _parse_json(text): the text itself, else the part from the first { to the
\* last }, must be a JSON object
ParseFails(output) == output.form \notin {"json", "fenced"}

\* what _parse_json and VizSpec.model_validate raise for an output, NoExc if
\* the output validates
ValidationOf(output) ==
    IF ParseFails(output) THEN Exc("JSONDecodeError", output.form)
    ELSE IF ~DataSourceFileValid(output.dict.file) THEN Exc("ValidationError", "data.source.file")
    ELSE IF output.dict.type \notin ChartTypes THEN Exc("ValidationError", "chart.type")
    ELSE IF ~VizSpecValid(output.dict) THEN Exc("ValidationError", "transform")
    ELSE NoExc

\* a message of the sub-agent's conversation
Message(role, kind, detail) == [role |-> role, kind |-> kind, detail |-> detail]
\* self._build_prompt(...)
BuildPrompt == Message("user", "request", "")
\* the prompt of a retry: it quotes the exception
RetryPrompt(exc) == Message("user", "failed validation", exc.detail)

\* the message_history argument of agent.run: None, or a message list
History(none, msgs) == [none |-> none, msgs |-> msgs]
NoHistory == History(TRUE, <<>>)

\* result.all_messages(): the history the run was given, then the run's
\* prompt and the model's answer
AllMessages(message_history, user_prompt, output) ==
    message_history.msgs
        \o <<user_prompt, Message("assistant", output.form, output.dict.type)>>

\* (mutant) a retry starts a fresh session
FreshSession(all_messages) == NoHistory

\* message_history = result.all_messages()
RetryHistory(all_messages) == History(FALSE, all_messages)

\* (mutant) one more attempt than the source allows
IsLastAttemptLate(attempt) == attempt = MAX_RETRIES + 1

\* attempt == MAX_RETRIES, with attempt from range(MAX_RETRIES + 1)
IsLastAttempt(attempt) == attempt = MAX_RETRIES

\* (mutant) execute catches pydantic's error only
ExecuteCatchesValidationOnly(exc) == exc.cls = "ValidationError"

\* except (ValidationError, json.JSONDecodeError, ValueError) in execute
ExecuteCatches(exc) == exc.cls \in {"ValidationError", "JSONDecodeError", "ValueError"}

\* (mutant) a default limit the schema rejects
LimitTransformZero == LimitTransform(0)

\* LimitTransform(limit=20)
DefaultLimitTransform == LimitTransform(20)

\* (mutant) the defaults appended to every bar chart, whatever it holds
ensure_bar_defaults_always(spec, row_count) ==
    IF spec.type # "bar" THEN spec
    ELSE [spec EXCEPT !.transform =
             @ \o <<SortTransform(spec.y, "desc"), DefaultLimitTransform>>]

\* VizTool._ensure_bar_defaults(spec, row_count)
ensure_bar_defaults(spec, row_count) ==
    IF spec.type # "bar" THEN spec
    ELSE LET has_limit == \E i \in 1..Len(spec.transform) : spec.transform[i].kind = "limit"
             has_sort == \E i \in 1..Len(spec.transform) : spec.transform[i].kind = "sort"
             sorted == IF has_sort THEN spec.transform
                       ELSE Append(spec.transform, SortTransform(spec.y, "desc"))
             limited == IF ~has_limit /\ row_count > 20
                        THEN Append(sorted, DefaultLimitTransform)
                        ELSE sorted
         IN  [spec EXCEPT !.transform = limited]

\* the JSON payloads execute returns
VizPayload(kind, error, details, spec) ==
    [kind |-> kind, error |-> error, details |-> details, spec |-> spec]
NoPayload == VizPayload("none", "", "", NoSpec)
VizError(error, details) == VizPayload("error", error, details, NoSpec)
VizSpecPayload(spec) == VizPayload("spec", "", "", spec)

\* str.removeprefix and str.removesuffix
removeprefix(text, prefix) ==
    IF Len(text) >= Len(prefix) /\ SubSeq(text, 1, Len(prefix)) = prefix
    THEN SubSeq(text, Len(prefix) + 1, Len(text))
    ELSE text
removesuffix(text, suffix) ==
    IF Len(text) >= Len(suffix)
       /\ SubSeq(text, Len(text) - Len(suffix) + 1, Len(text)) = suffix
    THEN SubSeq(text, 1, Len(text) - Len(suffix))
    ELSE text

\* tool_call_id = file.removeprefix("result_").removesuffix(".json")
ToolCallIdOf(file) == removesuffix(removeprefix(file, FilePrefix), FileSuffix)

\* the tool calls whose output a message history may hold
ToolCallIds == {<<"a", "b", "c">>, <<"x", "y", "z">>}

\* (mutant) a lookup that always finds an output
find_tool_output_always(messages, tool_call_id) == TRUE

\* find_tool_output_payload(ctx, tool_call_id) is not None: a tool-return
\* part of the messages carries that tool call id
find_tool_output_payload(messages, tool_call_id) == tool_call_id \in messages

\* the file arguments and row counts of the calls
VizFiles == {FileAbc, FileNoPrefix, FileEmptyId, FileSpace, FileNewline, FileNone}
RowCounts == {10, 25}

\* one run of the sub-agent, as generate_spec made it
Call(user_prompt, message_history, output, exc, all_messages) ==
    [prompt |-> user_prompt, message_history |-> message_history, output |-> output,
     exc |-> exc, all_messages |-> all_messages]

VizInit ==
    /\ vpc = "idle"
    /\ vFile = FileNone
    /\ vRowCount = 0
    /\ vAttempt = 0
    /\ vPrompt = BuildPrompt
    /\ vHistory = NoHistory
    /\ vCalls = <<>>
    /\ vResult = NoPayload
    /\ vLastFile = FileNone
    /\ vLastRows = 0
    /\ vMessages = {}

\* VizTool.execute is called: the file key is checked, the tool output is
\* looked up, the rows and the file are recorded and generate_spec starts
VizExecute(file, messages, row_count) ==
    /\ vpc = "idle"
    /\ vFile' = file
    /\ vMessages' = messages
    /\ vCalls' = <<>>
    /\ vAttempt' = 0
    /\ vPrompt' = BuildPrompt
    /\ vHistory' = NoHistory
    /\ IF file = FileNone \/ ~TOOL_OUTPUT_FILE_PATTERN(file)
       THEN /\ vResult' = VizError("Invalid result file key format.", "")
            /\ vpc' = "returned"
            /\ UNCHANGED <<vRowCount, vLastFile, vLastRows>>
       ELSE IF ~find_tool_output_payload(messages, ToolCallIdOf(file))
       THEN /\ vResult' = VizError("Tool output not found in message history.", "")
            /\ vpc' = "returned"
            /\ UNCHANGED <<vRowCount, vLastFile, vLastRows>>
       ELSE /\ vRowCount' = row_count
            /\ vLastRows' = row_count
            /\ vLastFile' = file
            /\ vResult' = NoPayload
            /\ vpc' = "generating"
    /\ UNCHANGED notViz

\* agent.run returns an output: it is parsed and validated; a valid spec is
\* returned (and given its bar defaults by execute), an invalid one is
\* retried with the conversation kept, or raised on the last attempt
VizAgentRun(output) ==
    /\ vpc = "generating"
    /\ LET exc == ValidationOf(output)
           all == AllMessages(vHistory, vPrompt, output)
       IN  /\ vCalls' = Append(vCalls, Call(vPrompt, vHistory, output, exc, all))
           /\ IF exc = NoExc
              THEN /\ vResult' = VizSpecPayload(ensure_bar_defaults(output.dict, vRowCount))
                   /\ vpc' = "returned"
                   /\ UNCHANGED <<vAttempt, vPrompt, vHistory>>
              ELSE IF IsLastAttempt(vAttempt)
              THEN /\ IF ExecuteCatches(exc)
                      THEN /\ vResult' = VizError("Failed to generate a valid visualization spec.",
                                                  exc.detail)
                           /\ vpc' = "returned"
                      ELSE /\ vResult' = NoPayload
                           /\ vpc' = "raised"
                   /\ UNCHANGED <<vAttempt, vPrompt, vHistory>>
              ELSE /\ vAttempt' = vAttempt + 1
                   /\ vHistory' = RetryHistory(all)
                   /\ vPrompt' = RetryPrompt(exc)
                   /\ UNCHANGED <<vpc, vResult>>
    /\ UNCHANGED <<vFile, vRowCount, vLastFile, vLastRows, vMessages>>
    /\ UNCHANGED notViz

\* agent.run itself raises (the provider fails): neither generate_spec nor
\* execute catches it
VizAgentRaises ==
    /\ vpc = "generating"
    /\ vpc' = "raised"
    /\ UNCHANGED <<vFile, vRowCount, vAttempt, vPrompt, vHistory, vCalls, vResult,
                   vLastFile, vLastRows, vMessages>>
    /\ UNCHANGED notViz

\* asyncio.wait_for gives up after SPEC_TIMEOUT_SECONDS
VizTimeout ==
    /\ vpc = "generating"
    /\ vResult' = VizError("Spec generation timed out.", "Timed out")
    /\ vpc' = "returned"
    /\ UNCHANGED <<vFile, vRowCount, vAttempt, vPrompt, vHistory, vCalls, vLastFile,
                   vLastRows, vMessages>>
    /\ UNCHANGED notViz

\* the caller has the result; the tool object is ready for its next call
VizDone ==
    /\ vpc \in {"returned", "raised"}
    /\ vpc' = "idle"
    /\ vResult' = NoPayload
    /\ vCalls' = <<>>
    /\ vAttempt' = 0
    /\ vPrompt' = BuildPrompt
    /\ vHistory' = NoHistory
    /\ vFile' = FileNone
    /\ vRowCount' = 0
    /\ vMessages' = {}
    /\ UNCHANGED <<vLastFile, vLastRows>>
    /\ UNCHANGED notViz

VizNext ==
    \/ \E f \in VizFiles, m \in SUBSET ToolCallIds, rc \in RowCounts :
          VizExecute(f, m, rc)
    \/ \E o \in Outputs : VizAgentRun(o)
    \/ VizAgentRaises
    \/ VizTimeout
    \/ VizDone

\* ------------------------------------------------------------------------
\* The sort transform: apply_sort
\*   src/plugins/viz/src/sqlsaber_viz/transforms.py
\* ------------------------------------------------------------------------

\* the columns of a row and the sort directions
SortFields == {"a", "b"}
SortDirs == {"asc", "desc"}

\* a cell: None (or a missing key, row.get gives None for both) or a number
NoneValue == [none |-> TRUE, n |-> 0]
Num(n) == [none |-> FALSE, n |-> n]
CellValues == {NoneValue, Num(1), Num(2)}

\* SortItem(field, dir)
SortItem(field, dir) == [field |-> field, dir |-> dir]

\* _sort_key(value): (3, "") for None, (0, number) for a number
sort_key(value) == IF value.none THEN <<3, 0>> ELSE <<0, value.n>>

\* the order of Python tuples
TupleLeq(k, l) == k[1] < l[1] \/ (k[1] = l[1] /\ k[2] <= l[2])

\* sorted(result, key=...): ascending and stable
RECURSIVE sorted(_, _)
sorted(rows, field) ==
    IF rows = <<>> THEN <<>>
    ELSE LET front == sorted(SubSeq(rows, 1, Len(rows) - 1), field)
             last == rows[Len(rows)]
             notAfter(r) == TupleLeq(sort_key(r[field]), sort_key(last[field]))
             after(r) == ~notAfter(r)
         IN  SelectSeq(front, notAfter) \o <<last>> \o SelectSeq(front, after)

\* list.reverse()
Reversed(rows) == [i \in 1..Len(rows) |-> rows[Len(rows) + 1 - i]]

\* one iteration of the loop of apply_sort
SortPass(result, sort) ==
    LET asc == sorted(result, sort.field)
        directed == IF sort.dir = "desc" THEN Reversed(asc) ELSE asc
        isNone(r) == r[sort.field].none
        notNone(r) == ~isNone(r)
    IN  SelectSeq(directed, notNone) \o SelectSeq(directed, isNone)

\* apply_sort(rows, sorts): one pass per key, the last key first
RECURSIVE apply_sort(_, _)
apply_sort(rows, sorts) ==
    IF sorts = <<>> THEN rows
    ELSE SortPass(apply_sort(rows, Tail(sorts)), Head(sorts))

\* the inputs: up to MaxSortRows rows of two cells, one or two sort keys
SortRowValues == [SortFields -> CellValues]
SortRowLists == UNION {[1..n -> SortRowValues] : n \in 0..MaxSortRows}
SortLists ==
    {<<SortItem(f, d)>> : f \in SortFields, d \in SortDirs}
    \cup {<<SortItem("a", d), SortItem("b", e)>> : d \in SortDirs, e \in SortDirs}
    \cup {<<SortItem("b", d), SortItem("a", e)>> : d \in SortDirs, e \in SortDirs}

SortInit ==
    /\ spc = "idle"
    /\ sRows = <<>>
    /\ sSorts = <<>>
    /\ sResult = <<>>

\* apply_sort(rows, sorts) is called and returns its list
ApplySort(rows, sorts) ==
    /\ spc = "idle"
    /\ sRows' = rows
    /\ sSorts' = sorts
    /\ sResult' = apply_sort(rows, sorts)
    /\ spc' = "returned"
    /\ UNCHANGED notSort

\* the caller has the list
SortDone ==
    /\ spc = "returned"
    /\ spc' = "idle"
    /\ sRows' = <<>>
    /\ sSorts' = <<>>
    /\ sResult' = <<>>
    /\ UNCHANGED notSort

SortNext ==
    \/ \E rows \in SortRowLists, sorts \in SortLists : ApplySort(rows, sorts)
    \/ SortDone

\* ------------------------------------------------------------------------
\* The knowledge table, its triggers and the manager's calls
\*   src/src/sqlsaber/knowledge/sqlite_store.py
\*   src/src/sqlsaber/knowledge/manager.py
\* A text is a sequence of words and blanks.
\* ------------------------------------------------------------------------

\* the name, description and sql arguments of add_knowledge / update_knowledge
NameArgs == {<<" ">>, <<" ", "revenue", " ">>, <<"monthly">>}
DescriptionArgs == {<<>>, <<"sales">>}
\* an optional text: None or a str
Opt(none, text) == [none |-> none, text |-> text]
None == Opt(TRUE, <<>>)
SqlArgs == {None, Opt(FALSE, <<" ">>), Opt(FALSE, <<"total">>)}

\* the terms the tokenizer takes from a text
Terms(text) == Range(text) \ Whitespace

\* (mutant) _normalize_required without the strip and the test
normalize_required_none(value) == [raises |-> FALSE, value |-> value]

\* _normalize_required(value): value.strip(), ValueError if nothing is left
normalize_required(value) ==
    [raises |-> Strip(value) = <<>>, value |-> Strip(value)]

\* _normalize_optional(value): None stays None, a blank str becomes None
normalize_optional(value) ==
    IF value.none \/ Strip(value.text) = <<>> THEN None
    ELSE Opt(FALSE, Strip(value.text))

\* COALESCE(sql, '')
Coalesce(value) == IF value.none THEN <<>> ELSE value.text

\* the (rowid, term) pairs of one row: name, description, COALESCE(sql, '')
IndexEntries(row) ==
    {<<row.rowid, w>> : w \in Terms(row.name) \cup Terms(row.description)
                                \cup Terms(Coalesce(row.sql))}

\* the terms of a row's text
RowTerms(row) ==
    Terms(row.name) \cup Terms(row.description) \cup Terms(Coalesce(row.sql))

\* trigger knowledge_ai: AFTER INSERT
knowledge_ai(fts, new) == fts \cup IndexEntries(new)
\* trigger knowledge_ad: AFTER DELETE, the 'delete' command with the old values
knowledge_ad(fts, old) == fts \ IndexEntries(old)
\* (mutant) an update trigger that only inserts the new values
knowledge_au_insert_only(fts, old, new) == fts \cup IndexEntries(new)
\* trigger knowledge_au: AFTER UPDATE, 'delete' of the old values, then insert
knowledge_au(fts, old, new) == (fts \ IndexEntries(old)) \cup IndexEntries(new)

\* the rowid SQLite gives a new row: one more than the largest in the table
NextRowid(rows) ==
    IF rows = <<>> THEN 1
    ELSE 1 + CHOOSE m \in {rows[i].rowid : i \in 1..Len(rows)} :
                 \A i \in 1..Len(rows) : rows[i].rowid <= m

\* (mutant) WHERE id = ?
WhereIdOnly(row, database_name, entry_id) == row.id = entry_id
\* WHERE database_name = ? AND id = ?
WhereDatabaseAndId(row, database_name, entry_id) ==
    row.database_name = database_name /\ row.id = entry_id

Selected(rows, database_name, entry_id) ==
    {i \in 1..Len(rows) : WhereDatabaseAndId(rows[i], database_name, entry_id)}

\* what the index and the table give a search: knowledge_fts JOIN knowledge
\* ON k.rowid = knowledge_fts.rowid
JoinFts(rows, fts) ==
    [i \in 1..Len(rows) |->
        [id |-> rows[i].id, database_name |-> rows[i].database_name,
         words |-> {w \in {p[2] : p \in fts} : <<rows[i].rowid, w>> \in fts},
         updated_at |-> rows[i].updated_at]]

\* a call and its outcome: blank says that the name or the description
\* argument was blank after trim, hit that the addressed entry was found,
\* raised that the call raised ValueError, some that it returned an entry
\* (or True), changed that it changed the table or the index, dropped the
\* terms an update took out of the entry's text
NoOp == [op |-> "none", database_name |-> "None", entry_id |-> 0,
         blank |-> FALSE, hit |-> FALSE, raised |-> FALSE, some |-> FALSE,
         ret_database |-> "None", count |-> 0, changed |-> FALSE, dropped |-> {}]
OpOf(op, database_name, entry_id) ==
    [NoOp EXCEPT !.op = op, !.database_name = database_name, !.entry_id = entry_id]
IsBlank(value) == Strip(value) = <<>>

StoreInit ==
    /\ tRows = <<>>
    /\ tFts = {}
    /\ tClock = 0
    /\ tOp = NoOp

\* add_knowledge(database_name, name, description, sql): the arguments are
\* normalised, then the store inserts the entry under a new id
AddKnowledge(database_name, name, description, sql) ==
    /\ tClock < MaxStoreOps
    /\ LET n == normalize_required(name)
           d == normalize_required(description)
           entry == [rowid |-> NextRowid(tRows), id |-> tClock + 1,
                     database_name |-> database_name, name |-> n.value,
                     description |-> d.value, sql |-> normalize_optional(sql),
                     updated_at |-> tClock + 1]
       IN  IF n.raises \/ d.raises
           THEN /\ tOp' = [OpOf("add", database_name, 0) EXCEPT
                              !.raised = TRUE,
                              !.blank = IsBlank(name) \/ IsBlank(description)]
                /\ UNCHANGED <<tRows, tFts, tClock>>
           ELSE /\ tRows' = Append(tRows, entry)
                /\ tFts' = knowledge_ai(tFts, entry)
                /\ tClock' = tClock + 1
                /\ tOp' = [OpOf("add", database_name, entry.id) EXCEPT
                              !.some = TRUE, !.ret_database = database_name,
                              !.blank = IsBlank(name) \/ IsBlank(description),
                              !.changed = TRUE]
    /\ UNCHANGED notStore

\* update_knowledge(database_name, entry_id, name, description, sql): the
\* entry is fetched first (None if it is not there), then the arguments are
\* normalised, then the store updates the row
UpdateKnowledge(database_name, entry_id, name, description, sql) ==
    /\ tClock < MaxStoreOps
    /\ LET hit == Selected(tRows, database_name, entry_id)
           n == normalize_required(name)
           d == normalize_required(description)
       IN  IF hit = {}
           THEN /\ tOp' = [OpOf("update", database_name, entry_id) EXCEPT
                              !.blank = IsBlank(name) \/ IsBlank(description)]
                /\ UNCHANGED <<tRows, tFts, tClock>>
           ELSE IF n.raises \/ d.raises
           THEN /\ tOp' = [OpOf("update", database_name, entry_id) EXCEPT
                              !.raised = TRUE, !.hit = TRUE,
                              !.blank = IsBlank(name) \/ IsBlank(description)]
                /\ UNCHANGED <<tRows, tFts, tClock>>
           ELSE LET i == CHOOSE i \in hit : TRUE
                    new == [tRows[i] EXCEPT !.name = n.value,
                                            !.description = d.value,
                                            !.sql = normalize_optional(sql),
                                            !.updated_at = tClock + 1]
                IN  /\ tRows' = [tRows EXCEPT ![i] = new]
                    /\ tFts' = knowledge_au(tFts, tRows[i], new)
                    /\ tClock' = tClock + 1
                    /\ tOp' = [OpOf("update", database_name, entry_id) EXCEPT
                                  !.some = TRUE, !.hit = TRUE,
                                  !.ret_database = new.database_name,
                                  !.blank = IsBlank(name) \/ IsBlank(description),
                                  !.changed = TRUE,
                                  !.dropped = RowTerms(tRows[i]) \ RowTerms(new)]
    /\ UNCHANGED notStore

\* get_knowledge(database_name, entry_id)
GetKnowledge(database_name, entry_id) ==
    /\ LET hit == Selected(tRows, database_name, entry_id)
       IN  tOp' = IF hit = {} THEN OpOf("get", database_name, entry_id)
                  ELSE [OpOf("get", database_name, entry_id) EXCEPT
                           !.some = TRUE, !.hit = TRUE,
                           !.ret_database =
                               tRows[CHOOSE i \in hit : TRUE].database_name]
    /\ UNCHANGED <<tRows, tFts, tClock>>
    /\ UNCHANGED notStore

RECURSIVE DeleteAll(_, _)
\* every deleted row fires knowledge_ad
DeleteAll(fts, deleted) ==
    IF deleted = <<>> THEN fts
    ELSE DeleteAll(knowledge_ad(fts, Head(deleted)), Tail(deleted))

\* remove_knowledge(database_name, entry_id): changed > 0
RemoveKnowledge(database_name, entry_id) ==
    /\ LET gone(r) == WhereDatabaseAndId(r, database_name, entry_id)
           kept(r) == ~gone(r)
       IN  /\ tRows' = SelectSeq(tRows, kept)
           /\ tFts' = DeleteAll(tFts, SelectSeq(tRows, gone))
           /\ tOp' = [OpOf("remove", database_name, entry_id) EXCEPT
                         !.some = (SelectSeq(tRows, gone) # <<>>),
                         !.hit = (SelectSeq(tRows, gone) # <<>>),
                         !.changed = (tRows' # tRows \/ tFts' # tFts)]
    /\ UNCHANGED tClock
    /\ UNCHANGED notStore

\* clear_knowledge(database_name): the count of the rows deleted
ClearKnowledge(database_name) ==
    /\ LET gone(r) == r.database_name = database_name
           kept(r) == ~gone(r)
       IN  /\ tRows' = SelectSeq(tRows, kept)
           /\ tFts' = DeleteAll(tFts, SelectSeq(tRows, gone))
           /\ tOp' = [OpOf("clear", database_name, 0) EXCEPT
                         !.count = Len(SelectSeq(tRows, gone)),
                         !.changed = (tRows' # tRows \/ tFts' # tFts)]
    /\ UNCHANGED tClock
    /\ UNCHANGED notStore

StoreNext ==
    \/ \E d \in DatabaseNames, n \in NameArgs, t \in DescriptionArgs, q \in SqlArgs :
          AddKnowledge(d, n, t, q)
    \/ \E d \in DatabaseNames, e \in 1..MaxStoreOps, n \in NameArgs,
          t \in DescriptionArgs, q \in SqlArgs : UpdateKnowledge(d, e, n, t, q)
    \/ \E d \in DatabaseNames, e \in 1..MaxStoreOps : GetKnowledge(d, e)
    \/ \E d \in DatabaseNames, e \in 1..MaxStoreOps : RemoveKnowledge(d, e)
    \/ \E d \in DatabaseNames : ClearKnowledge(d)

\* ------------------------------------------------------------------------
\* Concurrent first use of the store: initialize and add
\*   src/src/sqlsaber/knowledge/sqlite_store.py
\* The tasks interleave at every step, which includes every interleaving the
\* event loop can produce at its await points.
\* ------------------------------------------------------------------------

Tasks == 1..MaxTasks

FirstUseInit ==
    /\ fpc = [t \in Tasks |-> "idle"]
    /\ fEntry = [t \in Tasks |-> "None"]
    /\ fInitialized = FALSE
    /\ fLock = 0
    /\ fWriter = 0
    /\ fSchema = FALSE
    /\ fBodyRuns = 0
    /\ fRechecked = 0
    /\ fTable = {}

\* a task calls add(entry)
AddCall(t, database_name) ==
    /\ fpc[t] = "idle"
    /\ fpc' = [fpc EXCEPT ![t] = "check"]
    /\ fEntry' = [fEntry EXCEPT ![t] = database_name]
    /\ UNCHANGED <<fInitialized, fLock, fWriter, fSchema, fBodyRuns, fRechecked,
                   fTable>>
    /\ UNCHANGED notFirstUse

\* initialize: if self._initialized: return
InitCheck(t) ==
    /\ fpc[t] = "check"
    /\ fpc' = [fpc EXCEPT ![t] = IF fInitialized THEN "insert" ELSE "acquire"]
    /\ UNCHANGED <<fEntry, fInitialized, fLock, fWriter, fSchema, fBodyRuns,
                   fRechecked, fTable>>
    /\ UNCHANGED notFirstUse

\* async with self._init_lock: the task waits until the lock is free
InitAcquire(t) ==
    /\ fpc[t] = "acquire"
    /\ fLock = 0
    /\ fLock' = t
    /\ fpc' = [fpc EXCEPT ![t] = "recheck"]
    /\ UNCHANGED <<fEntry, fInitialized, fWriter, fSchema, fBodyRuns, fRechecked,
                   fTable>>
    /\ UNCHANGED notFirstUse

\* (mutant) no second test of the flag once the lock is held
NoRecheck(initialized) == FALSE
\* if self._initialized: return, with the lock held
RecheckUnderLock(initialized) == initialized

\* the second test: return (the lock is released) or go on to the body
InitRecheck(t) ==
    /\ fpc[t] = "recheck"
    /\ IF RecheckUnderLock(fInitialized)
       THEN /\ fLock' = 0
            /\ fRechecked' = fRechecked + 1
            /\ fpc' = [fpc EXCEPT ![t] = "insert"]
       ELSE /\ fpc' = [fpc EXCEPT ![t] = "schema"]
            /\ UNCHANGED <<fLock, fRechecked>>
    /\ UNCHANGED <<fEntry, fInitialized, fWriter, fSchema, fBodyRuns, fTable>>
    /\ UNCHANGED notFirstUse

\* the body: executescript(SCHEMA_SQL), every statement IF NOT EXISTS, then
\* _maybe_rebuild_fts_index and commit
InitSchema(t) ==
    /\ fpc[t] = "schema"
    /\ fWriter = 0
    /\ fSchema' = TRUE
    /\ fBodyRuns' = fBodyRuns + 1
    /\ fpc' = [fpc EXCEPT ![t] = "flag"]
    /\ UNCHANGED <<fEntry, fInitialized, fLock, fWriter, fRechecked, fTable>>
    /\ UNCHANGED notFirstUse

\* self._initialized = True, and the lock is released
InitFlag(t) ==
    /\ fpc[t] = "flag"
    /\ fInitialized' = TRUE
    /\ fLock' = 0
    /\ fpc' = [fpc EXCEPT ![t] = "insert"]
    /\ UNCHANGED <<fEntry, fWriter, fSchema, fBodyRuns, fRechecked, fTable>>
    /\ UNCHANGED notFirstUse

\* add: INSERT INTO knowledge on the task's own connection, which waits for
\* SQLite's write lock
AddInsert(t) ==
    /\ fpc[t] = "insert"
    /\ fSchema
    /\ fWriter = 0
    /\ fWriter' = t
    /\ fpc' = [fpc EXCEPT ![t] = "commit"]
    /\ UNCHANGED <<fEntry, fInitialized, fLock, fSchema, fBodyRuns, fRechecked,
                   fTable>>
    /\ UNCHANGED notFirstUse

\* add: db.commit()
AddCommit(t) ==
    /\ fpc[t] = "commit"
    /\ fTable' = fTable \cup {<<t, fEntry[t]>>}
    /\ fWriter' = 0
    /\ fpc' = [fpc EXCEPT ![t] = "done"]
    /\ UNCHANGED <<fEntry, fInitialized, fLock, fSchema, fBodyRuns, fRechecked>>
    /\ UNCHANGED notFirstUse

\* list_all(database_name): the committed rows of the database
list_all(database_name) == {e \in fTable : e[2] = database_name}

FirstUseNext ==
    \/ \E t \in Tasks, d \in DatabaseNames : AddCall(t, d)
    \/ \E t \in Tasks : InitCheck(t)
    \/ \E t \in Tasks : InitAcquire(t)
    \/ \E t \in Tasks : InitRecheck(t)
    \/ \E t \in Tasks : InitSchema(t)
    \/ \E t \in Tasks : InitFlag(t)
    \/ \E t \in Tasks : AddInsert(t)
    \/ \E t \in Tasks : AddCommit(t)

\* ------------------------------------------------------------------------
\* Tool overrides
\*   src/src/sqlsaber/overrides.py
\* A mapping is the sequence of its items in iteration order; a text is a
\* sequence of words and blanks; None is Opt(TRUE, <<>>).
\* ------------------------------------------------------------------------

\* an override value: None, a ModelOverides instance or a mapping, which may
\* carry a key other than model_name and api_key
Override(kind, model_name, api_key, unknown) ==
    [kind |-> kind, model_name |-> model_name, api_key |-> api_key, unknown |-> unknown]
NoOverride == Override("none", None, None, FALSE)
ModelOverides(model_name, api_key) == Override("instance", model_name, api_key, FALSE)

\* one item of the mapping
Item(name, value) == [name |-> name, value |-> value]

\* the inputs: names and texts with and without surrounding blanks
OverrideNames == {<<"viz">>, <<" ", "viz", " ">>, <<" ">>}
ModelNameArgs == {None, Opt(FALSE, <<" ">>), Opt(FALSE, <<" ", "gpt", " ">>)}
ApiKeyArgs == {None, Opt(FALSE, <<" ">>), Opt(FALSE, <<" ", "sk", " ">>)}
OverrideArgs ==
    {NoOverride}
    \cup {Override(k, m, a, FALSE) : k \in {"instance", "mapping"},
                                     m \in ModelNameArgs, a \in ApiKeyArgs}
    \cup {Override("mapping", Opt(FALSE, <<" ", "gpt", " ">>), None, TRUE)}
Items == {Item(n, v) : n \in OverrideNames, v \in OverrideArgs}

\* what a call gives: the exception it raised, or the value it returned
Raises(exc) == [raises |-> exc, value |-> <<>>]
Returned(value) == [raises |-> "none", value |-> value]

\* _normalize_optional_text(value): None stays None, a str is stripped and
\* becomes None if nothing is left
normalize_optional_text(value) ==
    IF value.none THEN None
    ELSE IF Strip(value.text) = <<>> THEN None
    ELSE Opt(FALSE, Strip(value.text))

\* _normalize_tool_name(value): the stripped name, ValueError if it is empty
normalize_tool_name(value) ==
    IF Strip(value) = <<>> THEN Raises("ValueError") ELSE Returned(Strip(value))

\* (mutant) normalize_model_overide without the api_key/model_name test
normalize_model_overide_unpaired(value) ==
    IF value.kind = "none" THEN Returned(NoOverride)
    ELSE IF value.unknown THEN Raises("ValueError")
    ELSE LET model_name == normalize_optional_text(value.model_name)
             api_key == normalize_optional_text(value.api_key)
         IN  IF model_name.none /\ api_key.none THEN Returned(NoOverride)
             ELSE Returned(ModelOverides(model_name, api_key))

\* normalize_model_overide(value): None for None; the keys of a mapping are
\* validated; both texts are normalised; an api_key without a model_name
\* raises; two Nones give None
normalize_model_overide(value) ==
    IF value.kind = "none" THEN Returned(NoOverride)
    ELSE IF value.unknown THEN Raises("ValueError")
    ELSE LET model_name == normalize_optional_text(value.model_name)
             api_key == normalize_optional_text(value.api_key)
         IN  IF ~api_key.none /\ model_name.none THEN Raises("ValueError")
             ELSE IF model_name.none /\ api_key.none THEN Returned(NoOverride)
             ELSE Returned(ModelOverides(model_name, api_key))

\* normalized[tool_name] = override: a key that is there keeps its place
SetItem(mapping, name, value) ==
    IF \E i \in DOMAIN mapping : mapping[i].name = name
    THEN [i \in DOMAIN mapping |->
             IF mapping[i].name = name THEN Item(name, value) ELSE mapping[i]]
    ELSE Append(mapping, Item(name, value))

\* the loop of normalize_tool_overides over the items left, normalized so far
RECURSIVE NormalizeItems(_, _)
NormalizeItems(items, normalized) ==
    IF items = <<>> THEN Returned(normalized)
    ELSE LET tool_name == normalize_tool_name(Head(items).name)
         IN  IF tool_name.raises # "none" THEN Raises(tool_name.raises)
             ELSE LET override == normalize_model_overide(Head(items).value)
                  IN  IF override.raises # "none" THEN Raises(override.raises)
                      ELSE IF override.value # NoOverride
                      THEN NormalizeItems(Tail(items),
                               SetItem(normalized, tool_name.value, override.value))
                      ELSE NormalizeItems(Tail(items), normalized)

\* normalize_tool_overides(tool_overides)
normalize_tool_overides(tool_overides) ==
    IF tool_overides = <<>> THEN Returned(<<>>)
    ELSE NormalizeItems(tool_overides, <<>>)

NotCalled == Raises("not called")

OverInit ==
    /\ ovpc = "idle"
    /\ ovInput = <<>>
    /\ ovResult = NotCalled
    /\ ovAgain = NotCalled

\* the caller puts an item under a new key into the mapping it will pass
OverPut(item) ==
    /\ ovpc = "idle"
    /\ Len(ovInput) < MaxOverrides
    /\ \A i \in DOMAIN ovInput : ovInput[i].name # item.name
    /\ ovInput' = Append(ovInput, item)
    /\ UNCHANGED <<ovpc, ovResult, ovAgain>>
    /\ UNCHANGED notOver

\* normalize_tool_overides is called with the mapping
OverNormalize ==
    /\ ovpc = "idle"
    /\ ovResult' = normalize_tool_overides(ovInput)
    /\ ovAgain' = NotCalled
    /\ ovpc' = "normalized"
    /\ UNCHANGED ovInput
    /\ UNCHANGED notOver

\* the mapping it returned is normalised once more
OverNormalizeAgain ==
    /\ ovpc = "normalized"
    /\ ovResult.raises = "none"
    /\ ovAgain' = normalize_tool_overides(ovResult.value)
    /\ ovpc' = "renormalized"
    /\ UNCHANGED <<ovInput, ovResult>>
    /\ UNCHANGED notOver

\* the caller is done with the mapping
OverDone ==
    /\ ovpc \in {"normalized", "renormalized"}
    /\ ovpc' = "idle"
    /\ ovInput' = <<>>
    /\ ovResult' = NotCalled
    /\ ovAgain' = NotCalled
    /\ UNCHANGED notOver

OverNext ==
    \/ \E item \in Items : OverPut(item)
    \/ OverNormalize
    \/ OverNormalizeAgain
    \/ OverDone

\* ------------------------------------------------------------------------
\* The pool of the database gateway under concurrent calls (joinobi)
\*   src/src/joinobi/database/connection.py
\* The tasks interleave at the await points of get_pool and close;
\* execute_query begins with get_pool.
\* ------------------------------------------------------------------------

PoolInit ==
    /\ gwpc = [t \in Tasks |-> "idle"]
    /\ gwPool = 0
    /\ gwOpen = {}
    /\ gwCreated = 0
    /\ gwGot = [t \in Tasks |-> 0]
    /\ gwClosing = [t \in Tasks |-> 0]

\* get_pool up to its await: self._pool is returned if it is there,
\* otherwise asyncpg.create_pool is awaited
GetPoolCheck(t) ==
    /\ gwpc[t] = "idle"
    /\ IF gwPool = 0
       THEN /\ gwCreated < MaxPools
            /\ gwpc' = [gwpc EXCEPT ![t] = "creating"]
            /\ UNCHANGED gwGot
       ELSE /\ gwGot' = [gwGot EXCEPT ![t] = gwPool]
            /\ UNCHANGED gwpc
    /\ UNCHANGED <<gwPool, gwOpen, gwCreated, gwClosing>>
    /\ UNCHANGED notPool

\* create_pool returns a new pool: it is assigned to self._pool and returned
GetPoolCreated(t) ==
    /\ gwpc[t] = "creating"
    /\ gwCreated' = gwCreated + 1
    /\ gwOpen' = gwOpen \cup {gwCreated'}
    /\ gwPool' = gwCreated'
    /\ gwGot' = [gwGot EXCEPT ![t] = gwCreated']
    /\ gwpc' = [gwpc EXCEPT ![t] = "idle"]
    /\ UNCHANGED gwClosing
    /\ UNCHANGED notPool

\* close() up to its await: nothing to do without a pool, otherwise
\* self._pool.close() is awaited
CloseStart(t) ==
    /\ gwpc[t] = "idle"
    /\ gwPool # 0
    /\ gwpc' = [gwpc EXCEPT ![t] = "closing"]
    /\ gwClosing' = [gwClosing EXCEPT ![t] = gwPool]
    /\ UNCHANGED <<gwPool, gwOpen, gwCreated, gwGot>>
    /\ UNCHANGED notPool

\* the pool is closed: self._pool = None
CloseDone(t) ==
    /\ gwpc[t] = "closing"
    /\ gwOpen' = gwOpen \ {gwClosing[t]}
    /\ gwPool' = 0
    /\ gwClosing' = [gwClosing EXCEPT ![t] = 0]
    /\ gwpc' = [gwpc EXCEPT ![t] = "idle"]
    /\ UNCHANGED <<gwCreated, gwGot>>
    /\ UNCHANGED notPool

PoolNext ==
    \/ \E t \in Tasks : GetPoolCheck(t)
    \/ \E t \in Tasks : GetPoolCreated(t)
    \/ \E t \in Tasks : CloseStart(t)
    \/ \E t \in Tasks : CloseDone(t)

\* ------------------------------------------------------------------------
\* Server-sent events: AnthropicClient._process_sse_stream on bytes
\*   src/src/sqlsaber/clients/anthropic.py
\* A stream is a sequence of bytes. The field prefixes "event: " and
\* "data: " stand as one element each; "C3" "A9" are the two bytes of one
\* character, "U+E9". The data of a record is taken to be valid JSON and
\* no cancellation token is set; the ping and error records and the
\* cancellation test are those of the streaming client above.
\* ------------------------------------------------------------------------

\* two records, the first with a two-byte character in its data
StreamUtf8 ==
    <<"event: ", "m", "\n", "data: ", "x", "C3", "A9", "\n", "\n",
      "event: ", "n", "\n", "data: ", "y", "\n", "\n">>
\* one record of one-byte characters, the event name and the data of two
StreamAscii ==
    <<"event: ", "m", "s", "\n", "data: ", "x", "y", "\n", "\n">>
SseStreams == {StreamUtf8, StreamAscii}

\* chunk.decode("utf-8") raises UnicodeDecodeError: a lead byte without its
\* continuation byte, or a continuation byte without its lead byte
DecodeFails(chunk) ==
    \E i \in DOMAIN chunk :
        \/ chunk[i] = "C3" /\ (i = Len(chunk) \/ chunk[i + 1] # "A9")
        \/ chunk[i] = "A9" /\ (i = 1 \/ chunk[i - 1] # "C3")

\* chunk.decode("utf-8") of a chunk that decodes
RECURSIVE Decode(_)
Decode(chunk) ==
    IF chunk = <<>> THEN <<>>
    ELSE IF Head(chunk) = "C3" THEN <<"U+E9">> \o Decode(Tail(Tail(chunk)))
    ELSE <<Head(chunk)>> \o Decode(Tail(chunk))

\* the reader between two chunks
Reader(buffer, event_type, yielded) ==
    [buffer |-> buffer, event_type |-> event_type, yielded |-> yielded]

\* while "\n" in buffer: the first line is split off and stripped; an
\* "event: " line sets event_type, a "data: " line yields an event of that
\* type, any other line is passed over
RECURSIVE ProcessLines(_, _, _)
ProcessLines(buffer, event_type, yielded) ==
    IF ~\E i \in DOMAIN buffer : buffer[i] = "\n"
    THEN Reader(buffer, event_type, yielded)
    ELSE LET nl == CHOOSE i \in DOMAIN buffer :
                       buffer[i] = "\n" /\ \A j \in 1..(i - 1) : buffer[j] # "\n"
             line == Strip(SubSeq(buffer, 1, nl - 1))
             rest == SubSeq(buffer, nl + 1, Len(buffer))
         IN  IF line = <<>> THEN ProcessLines(rest, event_type, yielded)
             ELSE IF Head(line) = "event: "
             THEN ProcessLines(rest, Tail(line), yielded)
             ELSE IF Head(line) = "data: "
             THEN ProcessLines(rest, event_type,
                      Append(yielded, [type |-> event_type, data |-> Tail(line)]))
             ELSE ProcessLines(rest, event_type, yielded)

\* (reference) a decoder that keeps the bytes of a chunk that does not
\* decode until the rest of the character has arrived
ProcessWhole(stream) == ProcessLines(Decode(stream), <<>>, <<>>).yielded

\* the body of the loop for one chunk: a chunk that does not decode is
\* logged and dropped, otherwise it is appended to the buffer and the
\* complete lines are processed
ProcessChunk(reader, chunk) ==
    IF DecodeFails(chunk) THEN reader
    ELSE ProcessLines(reader.buffer \o Decode(chunk), reader.event_type, reader.yielded)

SseInit ==
    /\ ssepc = "idle"
    /\ sseStream = <<>>
    /\ ssePos = 0
    /\ sseBuffer = <<>>
    /\ sseEventType = <<>>
    /\ sseYielded = <<>>
    /\ sseCuts = {}

\* _process_sse_stream is called on a response
SseOpen(stream) ==
    /\ ssepc = "idle"
    /\ ssepc' = "reading"
    /\ sseStream' = stream
    /\ ssePos' = 0
    /\ sseBuffer' = <<>>
    /\ sseEventType' = <<>>
    /\ sseYielded' = <<>>
    /\ sseCuts' = {}
    /\ UNCHANGED notSse

\* iter_any() delivers the next n bytes as one chunk
SseChunk(n) ==
    /\ ssepc = "reading"
    /\ ssePos + n <= Len(sseStream)
    /\ LET chunk == SubSeq(sseStream, ssePos + 1, ssePos + n)
           reader == ProcessChunk(Reader(sseBuffer, sseEventType, sseYielded), chunk)
       IN  /\ sseBuffer' = reader.buffer
           /\ sseEventType' = reader.event_type
           /\ sseYielded' = reader.yielded
    /\ ssePos' = ssePos + n
    /\ sseCuts' = IF ssePos' < Len(sseStream) THEN sseCuts \cup {ssePos'} ELSE sseCuts
    /\ UNCHANGED <<ssepc, sseStream>>
    /\ UNCHANGED notSse

\* the transport has delivered every byte: the loop ends
SseEnd ==
    /\ ssepc = "reading"
    /\ ssePos = Len(sseStream)
    /\ ssepc' = "ended"
    /\ UNCHANGED <<sseStream, ssePos, sseBuffer, sseEventType, sseYielded, sseCuts>>
    /\ UNCHANGED notSse

\* the caller is done with the stream
SseDone ==
    /\ ssepc = "ended"
    /\ ssepc' = "idle"
    /\ sseStream' = <<>>
    /\ ssePos' = 0
    /\ sseBuffer' = <<>>
    /\ sseEventType' = <<>>
    /\ sseYielded' = <<>>
    /\ sseCuts' = {}
    /\ UNCHANGED notSse

SseNext ==
    \/ \E s \in SseStreams : SseOpen(s)
    \/ \E n \in 1..MaxChunk : SseChunk(n)
    \/ SseEnd
    \/ SseDone

\* ------------------------------------------------------------------------
\* Specifications
\* ------------------------------------------------------------------------

\* every component as constructed
Components ==
    /\ AgentInit /\ ClientInit /\ SqlInit /\ ToolsInit /\ CacheInit
    /\ JsonInit /\ KnowInit /\ VizInit /\ SortInit /\ StoreInit /\ FirstUseInit /\ OverInit /\ PoolInit /\ SseInit

\* the constructor arguments
Configured(i, aw) == impl = i /\ allowWrite = aw

Init == Configured("sqlsaber", FALSE) /\ Components
InitAgent == \E i \in Impls : Configured(i, FALSE) /\ Components
InitSql == \E aw \in BOOLEAN : Configured("sqlsaber", aw) /\ Components

SpecAgent == InitAgent /\ [][AgentNext]_vars
\* the while test and what follows it hold no await: once the response is
\* there, query_stream goes on to the next cycle or to the final commit
SpecAgentLive == InitAgent /\ [][AgentNext]_vars /\ WF_vars(LoopTest)
SpecClient == Init /\ [][ClientNext]_vars
SpecSql == InitSql /\ [][SqlNext]_vars
SpecTools == Init /\ [][ToolsNext]_vars
SpecCache == Init /\ [][CacheNext]_vars
SpecJson == Init /\ [][JsonNext]_vars
SpecKnow == Init /\ [][KnowNext]_vars
SpecViz == Init /\ [][VizNext]_vars
SpecSort == Init /\ [][SortNext]_vars
SpecStore == Init /\ [][StoreNext]_vars
SpecFirstUse == Init /\ [][FirstUseNext]_vars
SpecOver == Init /\ [][OverNext]_vars
SpecPool == Init /\ [][PoolNext]_vars
SpecSse == Init /\ [][SseNext]_vars

\* ------------------------------------------------------------------------
\* Claims
\* ------------------------------------------------------------------------

ToolUseIds(turn) ==
    {turn.content[j].id : j \in {k \in 1..Len(turn.content) : IsToolUse(turn.content[k])}}

HasToolUse(turn) == turn.role = "assistant" /\ ToolUseIds(turn) # {}

\* the turn after h[i] is a tool-result turn answering exactly the ids of h[i]
AnsweredBy(use, res) ==
    /\ res.role = "user"
    /\ \A j \in 1..Len(res.content) :
          /\ IsToolResult(res.content[j])
          /\ res.content[j].tool_use_id \in ToolUseIds(use)
    /\ \A id \in ToolUseIds(use) :
          Cardinality({j \in 1..Len(res.content) : res.content[j].tool_use_id = id}) = 1

\* C1: after any run of query_stream (completed, cancelled or failed) every
\* assistant turn of conversation_history that holds tool_use blocks is
\* immediately followed by a tool-result turn holding exactly one tool_result
\* per tool_use id of that turn and no tool_result for another id.
C1_ToolUsePairing ==
    pc = "done" =>
        \A i \in 1..Len(history) :
            HasToolUse(history[i]) =>
                /\ i < Len(history)
                /\ AnsweredBy(history[i], history[i + 1])

\* a cancelled run that left a committed batch of two tool calls
C1_Witness ==
    /\ pc = "done"
    /\ cancel
    /\ \E i \in 1..Len(history) : Cardinality(ToolUseIds(history[i])) = 2

\* C4 (as claimed): if the cancellation flag is set before the tool-result
\* turn of the current tool cycle is appended, the run ends with
\* conversation_history unchanged by that cycle.
C4_CancelLeavesHistory ==
    (pc = "done" /\ cancelSeen) => history = histAtCycle

\* C5 (as claimed): if the cancellation flag is set while a model turn is
\* being streamed, create_message_with_tools never yields the response_ready
\* signal for that turn.
C5_NoResponseReadyAfterCancel ==
    cCancelAt >= 0 =>
        \A i \in 1..Len(cYielded) : cYielded[i].type # "response_ready"

\* C2: when writes are not allowed, execute_sql on a query whose first token,
\* after stripping whitespace and upper-casing, is a write keyword returns an
\* error payload and never calls execute_query.
C2_WriteGate ==
    (sqlInput # NoInput /\ ~allowWrite
        /\ FirstWord(sqlInput.query) \in write_keywords) =>
            /\ sqlpc = "returned"
            /\ sqlResult.kind = "error"
            /\ sqlDbCalls = 0
            /\ sqlQuery = <<>>

\* a lower-case write statement behind leading whitespace has been refused
C2_Witness ==
    /\ ~allowWrite
    /\ sqlpc = "returned"
    /\ sqlResult.kind = "error"
    /\ sqlInput.query # <<>>
    /\ sqlInput.query[1] \in Whitespace
    /\ FirstWord(sqlInput.query) \in write_keywords
    /\ Strip(sqlInput.query) # Upper(Strip(sqlInput.query))

\* the committed state of the database before any call
DbBefore == {}

\* C3: every execute_query, whether its statement succeeds or raises, ends
\* with its transaction rolled back and its connection released; after any
\* sequence of calls nothing is committed and the database state equals the
\* state before the sequence.
C3_RollbackInvariant ==
    /\ db = DbBefore
    /\ sqlpc \in {"idle", "returned"} =>
          /\ connsOut = 0
          /\ txn \in {"none", "rolledback"}
    /\ (sqlpc = "returned" /\ sqlDbCalls > 0) => txn = "rolledback"

\* a write statement has run successfully in dangerous mode, after an
\* earlier transaction, and its call has returned
C3_Witness ==
    /\ allowWrite
    /\ sqlpc = "returned"
    /\ sqlResult.kind = "success"
    /\ FirstWord(sqlInput.query) \in write_keywords
    /\ txnDb # {}
    /\ txn = "rolledback"
    /\ connsOut = 0

IdentChars == Range(UpperCase) \cup Range(DigitChars) \cup {"_"}

\* the query holds the word LIMIT (in any case) as a token of its own
HasLimitClause(query) ==
    LET u == Upper(query)
    IN  \E i \in 1..(Len(u) - 4) :
            /\ SubSeq(u, i, i + 4) = KwLimit
            /\ (i = 1 \/ u[i - 1] \notin IdentChars)
            /\ (i + 4 = Len(u) \/ u[i + 5] \notin IdentChars)

\* C9 (as claimed): for every SELECT query that has no LIMIT clause,
\* execute_sql runs the query with its trailing ';' stripped and LIMIT n
\* appended, and the results it returns hold at most n rows.
C9_LimitInjected ==
    (sqlpc = "returned" /\ FirstWord(sqlInput.query) = KwSelect
        /\ ~HasLimitClause(sqlInput.query)) =>
            /\ sqlDbCalls = 1
            /\ sqlQuery = WithLimit(sqlInput.query, sqlInput.limit)
            /\ Len(sqlResult.results) <= sqlInput.limit

SuccessiveWithinTtl ==
    /\ schpc = "idle"
    /\ prevCall.valid /\ lastCall.valid
    /\ prevCall.op = "get_schema_info" /\ lastCall.op = "get_schema_info"
    /\ prevCall.pattern = lastCall.pattern
    /\ lastCall.at - prevCall.at < cache_ttl
    /\ ~lastCall.afterClear

C8_PartialJsonReassembly ==
    /\ (jpc = "done" /\ jFrags > 0 /\ jPos = Len(jText) /\ json_loads(jText).ok) =>
          jBlock.input = json_loads(jText).v
    /\ (jpc # "idle" /\ jFrags = 0) => jBlock.input = EmptyObject
    /\ (jpc # "idle" /\ \A n \in 1..jPos : ~json_loads(SubSeq(jText, 1, n)).ok) =>
          jBlock.input = EmptyObject

\* an object with two members has arrived in three or more fragments
C8_Witness ==
    /\ jpc = "done"
    /\ jFrags >= 3
    /\ jPos = Len(jText)
    /\ jBlock.input.t = "object"
    /\ Len(jBlock.input.items) = 2
    /\ jBlock.input.items[2].v.n = 12

\* C10: a search for one database, through the store, the manager or the
\* search_knowledge tool, returns only entries saved under that database,
\* also when an entry of another database matches the query better.
C10_SearchScoped ==
    kSearch.valid =>
        \A i \in 1..Len(kResult) :
            IF kSearch.via = "tool"
            THEN \E j \in 1..Len(kRows) :
                    /\ kRows[j].id = kResult[i].id
                    /\ kRows[j].database_name = kSearch.database_name
            ELSE kResult[i].database_name = kSearch.database_name

\* a search of db_a returned an entry although an entry of db_b holds more
\* of the query's words than any entry of db_a
C10_Witness ==
    /\ kSearch.valid
    /\ kSearch.database_name = "db_a"
    /\ kResult # <<>>
    /\ \A i \in 1..Len(kResult) : kResult[i].words = {"revenue"}
    /\ \E j \in 1..Len(kRows) :
          /\ kRows[j].database_name = "db_b"
          /\ kRows[j].words = {"revenue", "monthly"}
    /\ \A j \in 1..Len(kRows) :
          kRows[j].database_name = "db_a" => kRows[j].words = {"revenue"}

\* -- the run loop: errors, commit points, history, text events -------------

ErrorEvents(evs) == {i \in 1..Len(evs) : evs[i].type = "error"}

\* the run ended in the except clause because the model's stream failed
StreamFailed == pc = "done" /\ ErrorEvents(events) # {} /\ toolOutcome = "none"

\* the run ended after the model stopped asking for tools
Completed == pc = "done" /\ response.stop_reason = "stop"

\* C11 (as claimed): when the LLM stream fails at any model turn of a run, also
\* a turn after completed tool cycles, query_stream emits exactly one error
\* event, emits nothing after it, and conversation_history equals its value at
\* the start of the run.
C11_StreamErrorKeepsHistory ==
    StreamFailed =>
        /\ Cardinality(ErrorEvents(events)) = 1
        /\ events[Len(events)].type = "error"
        /\ history = histAtRun

\* the last two turns of the history are the last tool cycle: its assistant
\* tool-use turn and its tool-result turn
LastCycleCommitted ==
    /\ Len(collected) >= 2
    /\ Len(history) >= 2
    /\ HasToolUse(history[Len(history) - 1])
    /\ history[Len(history) - 1] = collected[Len(collected) - 1]
    /\ history[Len(history)] = collected[Len(collected)]

\* C12 (as claimed): if the cancellation flag is set after all tool results of
\* a cycle have been built and before the next model turn starts, then when the
\* run ends the assistant tool-use turn and the tool-result turn of that cycle
\* are in conversation_history and no later turn has been added.
C12_CancelAfterResultsCommits ==
    (pc = "done" /\ cancelAt = "after_results") => LastCycleCommitted

\* C12 (amended): the same for a run with use_history on; a run with
\* use_history off leaves conversation_history as it was.
C12_CancelAfterResultsCommitsWithHistory ==
    (pc = "done" /\ cancelAt = "after_results") =>
        IF useHistory THEN LastCycleCommitted ELSE history = histAtRun

C12_Witness ==
    /\ pc = "done"
    /\ cancelAt = "after_results"
    /\ useHistory
    /\ LastCycleCommitted
    /\ Len(history[Len(history)].content) >= 1

\* C13 (as claimed): with use_history on, when a run completes after k >= 0
\* tool cycles, conversation_history equals the history before the run, then
\* the user turn with the prompt, then each cycle's assistant tool-use turn
\* and tool-result turn in order, then the final assistant turn, each once.
C13_HistoryAfterRun ==
    (Completed /\ useHistory) =>
        history = histAtRun \o <<Turn("user", StrContent(prompt))>> \o collected
                            \o <<Turn("assistant", response.content)>>

\* the payloads of the text events yielded since the model turn started
TextsSince ==
    LET since == SubSeq(events, turnStart + 1, Len(events))
        texts == SelectSeq(since, LAMBDA e : e.type = "text")
    IN  [i \in 1..Len(texts) |-> texts[i].data]

RECURSIVE Concat(_)
Concat(seqs) == IF seqs = <<>> THEN <<>> ELSE Head(seqs) \o Concat(Tail(seqs))

\* the text of the text blocks of a response, in order
TextOf(content) ==
    LET blocks == SelectSeq(content, LAMBDA b : b.type = "text")
    IN  Concat([i \in 1..Len(blocks) |-> blocks[i].text])

\* C14 (as claimed): for every sequence of text deltas received in a model
\* turn, query_stream emits one text event per delta carrying exactly that
\* delta, in arrival order, and the text of the resulting assistant turn equals
\* the concatenation of the deltas.
C14_TextEventPerDelta ==
    /\ TextsSince = deltasIn
    /\ pc = "loop" => TextOf(response.content) = Concat(deltasIn)

\* C14 (amended): sqlsaber emits one text event per non-empty delta (an empty
\* delta gives no event), joinobi one per delta; the events carry exactly the
\* deltas, in arrival order, and the text of the resulting assistant turn
\* equals the concatenation of the deltas.
C14_TextEventPerNonEmptyDelta ==
    /\ TextsSince = IF impl = "sqlsaber"
                    THEN SelectSeq(deltasIn, LAMBDA d : d # <<>>)
                    ELSE deltasIn
    /\ pc = "loop" => TextOf(response.content) = Concat(deltasIn)

C14_Witness ==
    /\ impl = "sqlsaber"
    /\ pc = "loop"
    /\ deltasIn = << <<"a">>, <<>> >>
    /\ Len(TextsSince) = 1

\* the tool call that just ended was for an unknown tool, or its tool raised
ToolCallFailed ==
    /\ toolOutcome # "none"
    /\ blockIdx > 1
    /\ \/ toolOutcome \in {"raises", "missing_query"}
       \/ response.content[blockIdx - 1].name \notin KnownTools

\* C19: in sqlsaber, a tool call for an unknown tool or whose tool raises ends
\* with an {error} payload paired with the tool_use id as its tool_result; the
\* run stays in its tool cycle and no error event is emitted.
C19_ToolErrorsAreData ==
    (impl = "sqlsaber" /\ toolOutcome # "none") =>
        /\ pc = "tools"
        /\ ErrorEvents(events) = {}
        /\ toolResults # <<>>
        /\ toolResults[Len(toolResults)].tool_use_id = response.content[blockIdx - 1].id
        /\ ToolCallFailed => toolResults[Len(toolResults)].content = "error"

C19_Witness ==
    /\ impl = "sqlsaber"
    /\ pc = "tools"
    /\ ToolCallFailed
    /\ toolOutcome = "raises"
    /\ response.content[blockIdx - 1].name \in KnownTools
    /\ toolResults[Len(toolResults)].content = "error"

\* -- the streaming client: error records ----------------------------------

\* C20 (as claimed): an SSE record of type error makes the stream raise an
\* LLMClientError that carries the provider's message and the provider's error
\* kind taken from the record's data, and no event is yielded for that record
\* or after it.
C20_ErrorRecordRaisesTyped ==
    (cSent # NoData /\ cSent.keys) =>
        /\ cpc = "raised"
        /\ cError.message = cSent.message
        /\ cError.error_type = cSent.type
        /\ \A i \in 1..Len(cYielded) : cYielded[i].type \notin {"error", "response_ready"}

\* -- the visualization tool --------------------------------------------------

\* the runs of the sub-agent whose output did not validate
FailedCalls == {i \in 1..Len(vCalls) : vCalls[i].exc # NoExc}

\* C15: generate_spec runs the sub-agent at most MAX_RETRIES + 1 times per
\* call, and never again after an output has validated: only the last run of
\* a call can be a valid one, so a valid first output means exactly one run.
C15_RetryBound ==
    /\ Len(vCalls) <= MAX_RETRIES + 1
    /\ \A i \in 1..Len(vCalls) : i < Len(vCalls) => i \in FailedCalls
    /\ \A i \in 1..Len(vCalls) : i \notin FailedCalls => vpc = "returned"

C15_Witness ==
    /\ vpc = "returned"
    /\ Len(vCalls) = MAX_RETRIES + 1
    /\ vResult.kind = "spec"

\* C16: the first run of the sub-agent has no message history; every retry is
\* run with the full message list of the attempt before it and with a prompt
\* that holds that attempt's validation error.
C16_RetryKeepsConversation ==
    /\ vCalls # <<>> => /\ vCalls[1].message_history = NoHistory
                        /\ vCalls[1].prompt = BuildPrompt
    /\ \A k \in 1..(Len(vCalls) - 1) :
           /\ vCalls[k + 1].message_history = History(FALSE, vCalls[k].all_messages)
           /\ vCalls[k + 1].prompt.kind = "failed validation"
           /\ vCalls[k + 1].prompt.detail = vCalls[k].exc.detail

C16_Witness ==
    /\ Len(vCalls) = MAX_RETRIES + 1
    /\ Len(vCalls[3].message_history.msgs) = 4
    /\ vCalls[1].exc # vCalls[2].exc

\* C17: when all MAX_RETRIES + 1 outputs fail parsing or validation, the error
\* of the last attempt is what generate_spec raises, and execute returns it
\* as a JSON error payload: no spec, and no exception to the caller.
C17_ExhaustionIsToolError ==
    (Len(vCalls) = MAX_RETRIES + 1 /\ FailedCalls = 1..Len(vCalls)) =>
        /\ vpc = "returned"
        /\ vResult.kind = "error"
        /\ vResult.details = vCalls[Len(vCalls)].exc.detail

C17_Witness ==
    /\ Len(vCalls) = MAX_RETRIES + 1
    /\ FailedCalls = 1..Len(vCalls)
    /\ vCalls[Len(vCalls)].exc.cls = "JSONDecodeError"
    /\ vResult.kind = "error"

\* C18: every payload execute returns that is not an error validates against
\* the VizSpec schema, also after retries and after the bar defaults were
\* added; its data source file matches the result-handle pattern.
C18_PayloadValidates ==
    vResult.kind = "spec" =>
        /\ VizSpecValid(vResult.spec)
        /\ DataSourceFileValid(vResult.spec.file)

C18_Witness ==
    /\ vResult.kind = "spec"
    /\ Len(vCalls) >= 2
    /\ vRowCount > 20
    /\ vResult.spec.type = "bar"
    /\ Len(vResult.spec.transform) = 2
    /\ vCalls[Len(vCalls)].output.dict.transform = <<>>

\* the cancellation checks of query_stream: on an event of a stream, at the
\* start of a tool cycle, after the tool-result turn
CancelChecks == {"cancel_stream", "cancel_cycle_start", "cancel_after_results"}

\* C21: a run that ended at a cancellation check (whichever of the three)
\* has yielded no error event.
C21_CancellationIsSilent ==
    (pc = "done" /\ endedBy \in CancelChecks) => ErrorEvents(events) = {}

\* a run that executed a tool, yielded events, and then ended at the check
\* after the tool-result turn
C21_Witness ==
    /\ pc = "done"
    /\ endedBy = "cancel_after_results"
    /\ cancel
    /\ events # <<>>

\* row r comes before row o by one key: a non-null value before a null one,
\* two non-null values in the key's direction
BeforeByKey(r, o, sort) ==
    LET v == r[sort.field]
        w == o[sort.field]
    IN  \/ ~v.none /\ w.none
        \/ /\ ~v.none /\ ~w.none
           /\ IF sort.dir = "desc" THEN v.n > w.n ELSE v.n < w.n

TiedByKey(r, o, sort) == r[sort.field] = o[sort.field]

\* r comes before o by k1, or they tie on k1 and r comes before o by k2, ...
RECURSIVE MustPrecede(_, _, _)
MustPrecede(r, o, sorts) ==
    /\ sorts # <<>>
    /\ \/ BeforeByKey(r, o, Head(sorts))
       \/ TiedByKey(r, o, Head(sorts)) /\ MustPrecede(r, o, Tail(sorts))

\* C22: the list apply_sort returns is ordered by k1 in k1's direction,
\* ties broken by k2 in k2's direction, a null value of a key after the
\* non-null ones in both directions: no row stands after a row it must precede.
C22_MultiKeySort ==
    spc = "returned" =>
        \A i \in 1..Len(sResult) : \A j \in (i + 1)..Len(sResult) :
            ~MustPrecede(sResult[j], sResult[i], sSorts)

\* every stored entry has a name and a description that are non-empty and
\* trimmed
StoredEntriesValid ==
    \A i \in 1..Len(tRows) :
        /\ tRows[i].name # <<>> /\ Strip(tRows[i].name) = tRows[i].name
        /\ tRows[i].description # <<>>
        /\ Strip(tRows[i].description) = tRows[i].description

\* C23 (as stated): every stored entry has a non-empty, trimmed name and
\* description, and every add_knowledge or update_knowledge call whose name
\* or description is blank after trim raises ValueError and changes nothing.
C23_BlankAlwaysRaises ==
    /\ StoredEntriesValid
    /\ (tOp.op \in {"add", "update"} /\ tOp.blank) =>
           (tOp.raised /\ ~tOp.changed)

\* C23 (amended): every stored entry has a non-empty, trimmed name and
\* description; a blank name or description makes add_knowledge raise
\* ValueError, and makes update_knowledge raise ValueError when the
\* addressed entry exists and return None when it does not; in each case
\* the table and the index are unchanged.
C23_BlankNeverStored ==
    /\ StoredEntriesValid
    /\ (tOp.op \in {"add", "update"} /\ tOp.blank) =>
           /\ ~tOp.changed
           /\ ~tOp.some
           /\ tOp.raised <=> (tOp.op = "add" \/ tOp.hit)

\* update_knowledge with a blank name, addressed to a stored entry, raised
C23_Witness ==
    /\ tOp.op = "update" /\ tOp.blank /\ tOp.hit /\ tOp.raised
    /\ tRows # <<>>

\* the terms an entry's text can hold
AllTerms == UNION {Terms(n) : n \in NameArgs} \cup UNION {Terms(t) : t \in DescriptionArgs}
                \cup UNION {Terms(Coalesce(q)) : q \in SqlArgs}

\* the ids search(database_name, term) returns when the limit is no bound
FoundIds(database_name, term) ==
    LET found == StoreSearch(JoinFts(tRows, tFts), database_name,
                             <<Token(term, TRUE, FALSE)>>, MaxStoreOps)
    IN  {found[i].id : i \in 1..Len(found)}

\* the ids of the rows of the table whose text holds the term now
CurrentIds(database_name, term) ==
    {tRows[i].id : i \in {j \in 1..Len(tRows) :
        tRows[j].database_name = database_name /\ term \in RowTerms(tRows[j])}}

\* C24: after any sequence of add, update, remove and clear, search for a
\* term returns exactly the rows of that database whose current name,
\* description or sql holds the term; an updated entry is not found by a
\* term that only its old text held.
C24_FtsInSync ==
    /\ \A d \in DatabaseNames, w \in AllTerms : FoundIds(d, w) = CurrentIds(d, w)
    /\ \A w \in tOp.dropped : tOp.entry_id \notin FoundIds(tOp.database_name, w)

\* an update took a term out of an entry that is still stored and found by
\* another term
C24_Witness ==
    /\ tOp.op = "update" /\ tOp.changed /\ tOp.dropped # {}
    /\ \E w \in AllTerms : tOp.entry_id \in FoundIds(tOp.database_name, w)

\* a call of store.search or manager.search_knowledge has returned
SearchReturned == kSearch.valid /\ kSearch.via \in {"store", "manager"}

\* C25 (as stated): whatever the limit passed to search / search_knowledge,
\* the number of entries returned is at most limit.
C25_AtMostLimit ==
    SearchReturned => Len(kResult) <= kSearch.limit

\* C25 (amended): the number of entries returned is at most max(1, limit).
C25_AtMostLimitOrOne ==
    SearchReturned => Len(kResult) <= AtLeastOne(kSearch.limit)

\* the rows of the database the last search was scoped to
RowsInScope ==
    {i \in 1..Len(kRows) : kRows[i].database_name = kSearch.database_name}

\* a search with limit 2 returned two entries of a database that holds three
C25_Witness ==
    /\ SearchReturned
    /\ kSearch.limit = 2
    /\ Len(kResult) = 2
    /\ Cardinality(RowsInScope) = 3

\* C26 (as stated): a whitespace-only query gives [] and runs no FTS query; a
\* malformed query is retried once as a quoted-token OR-query; search never
\* raises the engine's error.
C26_MalformedAlwaysRetried ==
    SearchReturned =>
        /\ ~kSearch.raised
        /\ kSearch.blank => (kResult = <<>> /\ kSearch.queries = 0)
        /\ kSearch.malformed => kSearch.queries = 2

\* C26 (amended): a whitespace-only query gives [] and runs no FTS query; a
\* malformed query is retried once as a quoted-token OR-query when a token is
\* left once the double quotes are taken out, and gives [] without a retry
\* when none is left; search never raises the engine's error.
C26_SearchNeverFails ==
    SearchReturned =>
        /\ ~kSearch.raised
        /\ kSearch.blank => (kResult = <<>> /\ kSearch.queries = 0)
        /\ (kSearch.malformed /\ kSearch.retry) => kSearch.queries = 2
        /\ (kSearch.malformed /\ ~kSearch.retry) =>
               (kSearch.queries = 1 /\ kResult = <<>>)

\* a malformed query was retried and the retry found an entry
C26_Witness ==
    /\ SearchReturned
    /\ kSearch.malformed /\ kSearch.queries = 2
    /\ kResult # <<>>

\* every task's add() has returned
AllAdded == \A t \in Tasks : fpc[t] = "done"

\* C27: however concurrent add() calls on a store that is not initialized
\* interleave, the body of initialize runs at most once, and exactly once when
\* the adds have all returned; every add is then persisted: list_all returns
\* the entries added for the database.
C27_InitializeOnce ==
    /\ fBodyRuns <= 1
    /\ AllAdded =>
           /\ fBodyRuns = 1
           /\ \A d \in DatabaseNames :
                  list_all(d) = {<<t, fEntry[t]>> : t \in {u \in Tasks : fEntry[u] = d}}

\* all adds returned, and every task but the one that ran the body got the
\* lock after it and found the flag set
C27_Witness ==
    /\ AllAdded
    /\ fRechecked = MaxTasks - 1

\* the rows of the databases a call was not addressed to
RowsOfOthers(rows, database_name) ==
    SelectSeq(rows, LAMBDA r : r.database_name # database_name)

\* the call that has just returned was handed the id of an entry of another
\* database
GivenForeignId ==
    \E i \in 1..Len(tRows) :
        tRows[i].id = tOp.entry_id /\ tRows[i].database_name # tOp.database_name

\* C28: a get, remove, update or clear addressed to one database leaves the
\* rows of every other database as they were and returns no entry of
\* another database, whatever id it is given; remove returns true exactly
\* when the entry (database_name, id) was stored, and the entry is gone
\* afterwards, so that a repeated remove returns false.
C28_ScopedByDatabase ==
    [][LET op == tOp'
           addressed(rows) == Selected(rows, op.database_name, op.entry_id)
       IN  op.op \in {"get", "remove", "update", "clear"} =>
               /\ RowsOfOthers(tRows', op.database_name)
                      = RowsOfOthers(tRows, op.database_name)
               /\ op.some /\ op.op \in {"get", "update"} =>
                      op.ret_database = op.database_name
               /\ op.op = "remove" =>
                      /\ op.some <=> addressed(tRows) # {}
                      /\ addressed(tRows') = {}]_vars

\* remove was addressed to one database with the id of an entry of another:
\* it returned false and the entry is still stored
C28_Witness ==
    /\ tOp.op = "remove"
    /\ ~tOp.some
    /\ GivenForeignId

\* the turn holds a text block whose text is the empty string
HoldsEmptyText(turn) ==
    \E i \in 1..Len(turn.content) :
        turn.content[i].type = "text" /\ turn.content[i].text = <<>>

\* C29: no turn of conversation_history holds a text block with an empty
\* payload, whatever blocks the model streams (a text block that is started
\* and receives no delta included).
C29_NoEmptyTextCommitted ==
    \A i \in 1..Len(history) : ~HoldsEmptyText(history[i])

\* the spec generate_spec returned to execute: the last answer of the sub-agent
GeneratedSpec == vCalls[Len(vCalls)].output.dict

HasKind(transform, kind) ==
    \E i \in 1..Len(transform) : transform[i].kind = kind

\* C30: the payload of execute is the generated spec with transforms
\* appended and nothing else changed; for a bar chart a descending sort on
\* the Y field is appended iff the spec had no sort transform, and limit 20
\* iff it had no limit transform and row_count > 20; nothing is appended to
\* another chart type; applying the defaults again changes nothing.
C30_BarDefaults ==
    vResult.kind = "spec" =>
        LET spec == GeneratedSpec
            out == vResult.spec
            n == Len(spec.transform)
            added == SubSeq(out.transform, n + 1, Len(out.transform))
            sort == SortTransform(spec.y, "desc")
            limit == LimitTransform(20)
        IN  /\ out = [spec EXCEPT !.transform = spec.transform \o added]
            /\ Range(added) \subseteq {sort, limit}
            /\ Len(added) = Cardinality(Range(added))
            /\ spec.type # "bar" => added = <<>>
            /\ spec.type = "bar" =>
                   /\ sort \in Range(added) <=> ~HasKind(spec.transform, "sort")
                   /\ limit \in Range(added) <=>
                          (~HasKind(spec.transform, "limit") /\ vRowCount > 20)
            /\ ensure_bar_defaults(out, vRowCount) = out

\* a bar chart with a sort and no limit, over more than 20 rows: the limit
\* alone was appended
C30_Witness ==
    /\ vResult.kind = "spec"
    /\ GeneratedSpec.type = "bar"
    /\ vRowCount > 20
    /\ GeneratedSpec.transform = <<SortTransform("region", "asc")>>
    /\ vResult.spec.transform = <<SortTransform("region", "asc"), LimitTransform(20)>>

\* a step of VizTool.execute: the tool was idle and a call has been made
ExecuteStep == vpc = "idle" /\ vpc' # "idle"

\* the file of the call is no usable result handle: the pattern does not
\* match it, or no output of the tool call it names is in the messages
BadHandle(file, messages) ==
    \/ ~TOOL_OUTPUT_FILE_PATTERN(file)
    \/ ToolCallIdOf(file) \notin messages

\* C31: a call of VizTool.execute whose file does not match
\* ^result_[A-Za-z0-9._-]+\.json$, or names a tool call without an output in
\* the message history, returns an error payload, runs no sub-agent and
\* leaves the recorded rows and file of the tool as they were.
C31_HandleCheckedBeforeUse ==
    [][(ExecuteStep /\ BadHandle(vFile', vMessages')) =>
           /\ vpc' = "returned"
           /\ vResult'.kind = "error"
           /\ vCalls' = <<>>
           /\ vLastFile' = vLastFile
           /\ vLastRows' = vLastRows]_vars

\* a well-formed handle of a call without output was refused after an
\* earlier call had recorded its rows and file, which are still there
C31_Witness ==
    /\ vpc = "returned"
    /\ vFile = FileAbc
    /\ vMessages = {<<"x", "y", "z">>}
    /\ vResult = VizError("Tool output not found in message history.", "")
    /\ vCalls = <<>>
    /\ vLastFile = FileAbc
    /\ vLastRows = 25

\* a text that is None or blank
NoText(value) == value.none \/ Strip(value.text) = <<>>

\* an override with an api_key and no model_name
KeyWithoutModel(value) ==
    value.kind # "none" /\ ~NoText(value.api_key) /\ NoText(value.model_name)

\* an override that is None or has neither text
EmptyOverride(value) ==
    value.kind = "none" \/ (NoText(value.api_key) /\ NoText(value.model_name))

\* the names of a mapping
NamesOf(mapping) == {mapping[i].name : i \in DOMAIN mapping}

\* C32: normalize_tool_overides raises ValueError when an override has an
\* api_key and no model_name; what it returns holds no override whose texts
\* are both empty or None, and every override in it has a model_name that is
\* not empty and has no surrounding blanks; normalising what it returned
\* returns the same mapping.
C32_OverridesNormalized ==
    ovpc # "idle" =>
        /\ (\E i \in DOMAIN ovInput : KeyWithoutModel(ovInput[i].value)) =>
               ovResult.raises = "ValueError"
        /\ ovResult.raises = "none" =>
               /\ NamesOf(ovResult.value) =
                      {Strip(ovInput[i].name) :
                          i \in {j \in DOMAIN ovInput : ~EmptyOverride(ovInput[j].value)}}
               /\ \A i \in DOMAIN ovResult.value :
                      LET model_name == ovResult.value[i].value.model_name
                      IN  /\ ~model_name.none
                          /\ model_name.text # <<>>
                          /\ Strip(model_name.text) = model_name.text
        /\ ovpc = "renormalized" => ovAgain = ovResult

\* a mapping of two items: an override of blanks, which was dropped, and one
\* with blanks around its name and texts, which was stripped; normalising
\* the result gave the result
C32_Witness ==
    /\ ovpc = "renormalized"
    /\ Len(ovInput) = 2
    /\ ovInput[1].value = Override("mapping", Opt(FALSE, <<" ">>), Opt(FALSE, <<" ">>), FALSE)
    /\ ovInput[2].name = <<" ", "viz", " ">>
    /\ ovResult = Returned(<<Item(<<"viz">>,
                      ModelOverides(Opt(FALSE, <<"gpt">>), Opt(FALSE, <<"sk">>)))>>)
    /\ ovAgain = ovResult

\* a step of query_stream that dispatches a tool call
Dispatch == pc = "tools" /\ pc' = "toolexec"

\* C33: once the cancellation flag is set, query_stream dispatches no
\* further tool call; stated for the case the flag is checked for between
\* the tool calls of a batch: a flag set while one tool call runs keeps the
\* next tool call of the batch from being announced and executed.
C33_NoDispatchAfterCancel == [][Dispatch => cancelAt # "tool_running"]_vars

\* C34: once the cancellation flag is set, _process_sse_stream yields no
\* further event; stated for the records already buffered: after the flag
\* was set behind an event of the chunk in hand, none of the records left
\* of that chunk is yielded.
C34_NoEventAfterCancel == ~(cRawAfter > 0 /\ Len(cChunk) < cChunkLen)

\* the response holds a tool_use block
HoldsToolUse(resp) == \E i \in DOMAIN resp.content : IsToolUse(resp.content[i])

\* the model turn has ended and asks for no tool
FinalTurnReady ==
    pc = "loop" /\ response.stop_reason # "tool_use"

\* the response is the last turn of the history, put there by this run after
\* its last tool cycle
FinalTurnCommitted ==
    /\ Len(history) > Len(histAtCycle)
    /\ history[Len(history)] = Turn("assistant", response.content)

\* (as stated) the run that ended after a turn without tool_use committed
\* that turn as the final assistant turn, whatever use_history was
C35_FinalTurnAlwaysCommitted ==
    (pc = "done" /\ endedBy = "end") => FinalTurnCommitted

\* C35: a response's stop_reason is tool_use iff it holds a tool_use block;
\* with the token unset the loop starts a tool cycle iff stop_reason is
\* tool_use; once the model has returned a turn without tool_use the run
\* ends by the final commit, which with use_history on makes that turn the
\* last turn of the history and with use_history off leaves the history as
\* it was when the run started.
C35_RunLoopProgress ==
    /\ [](response # NoResponse =>
              (response.stop_reason = "tool_use" <=> HoldsToolUse(response)))
    /\ [][(pc = "loop" /\ pc' # "loop" /\ ~cancel) =>
              (pc' = "tools" <=> response.stop_reason = "tool_use")]_vars
    /\ FinalTurnReady ~>
           (/\ pc = "done"
            /\ endedBy = "end"
            /\ useHistory => FinalTurnCommitted
            /\ ~useHistory => history = histAtRun)

\* a run went through a tool cycle, then the model answered with text alone
\* and the run ended with that turn committed
C35_Witness ==
    /\ pc = "done"
    /\ endedBy = "end"
    /\ useHistory
    /\ collected # <<>>
    /\ response.content # <<>>
    /\ ~HoldsToolUse(response)
    /\ FinalTurnCommitted

\* the entry under the key is there and younger than the TTL
FreshEntry(key) ==
    /\ schemaCache[key].present
    /\ now - schemaCache[key].cached_time < cache_ttl

\* a step in which get_schema_info or list_tables returns a cached value
ServedFromCache ==
    /\ schpc = "idle" /\ schpc' = "idle"
    /\ <<prevCall', lastCall'>> # <<prevCall, lastCall>>
    /\ ~lastCall'.queried

\* a step in which one of them turns to the driver
DriverQueried == schpc = "idle" /\ schpc' = "fetching"

\* a step in which the driver's result comes back
DriverReturned == schpc = "fetching" /\ schpc' = "idle"

\* C36: get_schema_info and list_tables return a cached value only when an
\* entry is stored under the call's key with now - stored_at < TTL; when the
\* entry is missing or of age >= TTL the driver is queried and the entry is
\* replaced with the fresh result and the time of the store; the first call
\* after clear_schema_cache() never returns a cached value.
C36_CacheExpiryAndClear ==
    /\ [][/\ ServedFromCache =>
                /\ FreshEntry(KeyOf(lastCall'))
                /\ lastCall'.result = schemaCache[KeyOf(lastCall')].cached_data
                /\ schemaCache' = schemaCache
          /\ DriverQueried => ~FreshEntry(KeyOf(schCall'))
          /\ DriverReturned =>
                /\ lastCall'.queried
                /\ lastCall'.result = schFetched
                /\ schemaCache' = [schemaCache EXCEPT ![KeyOf(schCall)] =
                       [present |-> TRUE, cached_time |-> now,
                        cached_data |-> lastCall'.result]]]_vars
    /\ [](lastCall.afterClear => lastCall.queried)

\* list_tables found its entry of age TTL, queried the driver again and
\* stored the result with the new time, without any clear
C36_Witness ==
    /\ schpc = "idle"
    /\ prevCall.op = "list_tables" /\ prevCall.queried
    /\ lastCall.op = "list_tables" /\ lastCall.queried
    /\ ~lastCall.afterClear
    /\ lastCall.at - prevCall.at = cache_ttl
    /\ schemaCache[ListTablesKey].cached_time = lastCall.at
    /\ schemaCache[ListTablesKey].cached_data = lastCall.result

\* what the driver gives, at some state of the database so far, for a call
ResultsFor(call) ==
    IF call.op = "list_tables"
    THEN {ListTablesInfo(v) : v \in 0..dbVersion}
    ELSE {FetchSchema(call.pattern, v) : v \in 0..dbVersion}

\* C37: a value returned from the cache is a result of the call's own method
\* and table pattern: a schema cached for one pattern is not returned for a
\* call with another pattern or with none (the pattern 'all' and an unset
\* pattern included), nor for list_tables, and a table list is not returned
\* for a schema call.
C37_KeysSeparatePatterns ==
    (lastCall.valid /\ ~lastCall.queried) => lastCall.result \in ResultsFor(lastCall)

\* a step in which an execute_sql tool call returns and query_stream yields
\* a query_result event for it
QueryResultYielded ==
    /\ pc = "toolexec" /\ pc' = "tools"
    /\ response.content[blockIdx].name = "execute_sql"
    /\ Len(events') > Len(events)
    /\ events'[Len(events')].type = "query_result"

\* C38: a query_result event is yielded for an execute_sql tool call only
\* when that very call succeeded with rows; a call that returned an error or
\* no rows yields none, so the event never carries the query and rows an
\* earlier call of the run left behind.
C38_QueryResultNeverStale == [][QueryResultYielded => toolOutcome' = "rows"]_vars

\* C39: whatever the interleaving of concurrent get_pool and execute_query
\* calls, the gateway has created at most one pool that is not closed, and
\* it is the one self._pool holds, so that close() releases every pool the
\* gateway created.
C39_SinglePool == gwOpen \subseteq {gwPool}

\* C40: the events _process_sse_stream has yielded when the stream has
\* ended depend on the bytes of the stream alone, not on where the
\* transport cut it into chunks: they are the events of the stream
\* delivered whole.
C40_ChunkingIndependent ==
    ssepc = "ended" => sseYielded = ProcessWhole(sseStream)

====
